--------------------------- MODULE Approvals_proofs ---------------------------
(***************************************************************************)
(* What holds of Approvals for any number of calls, kinds of calls, drops  *)
(* of the connection and attempts: calls run as they were granted, and a   *)
(* request that waits has a call to answer and a prompt to answer it from. *)
(***************************************************************************)
EXTENDS Approvals, TLAPS

-------------------------------------------------------------------------------
(* The inductive invariant: the calls *)

Refused(c) == acked[<<c, "tool">>] \in {"deny_once", "deny_session"}

Asks(c) == asking[c] = "tool" /\ pc[c] \in {"emitting", "waiting", "expired"}

\* A call is asked for at most once per place, and before it starts.
IsOrdered(c) ==
    /\ pc[c] = "ready" => asking[c] = "tool" /\ acked[<<c, "tool">>] = "none"
    /\ asking[c] = "tool" => acked[<<c, "host">>] = "none" /\ starts[c]["host"] = 0
    /\ asking[c] = "host" =>
          /\ kind[c].profile = "workspace_sandbox"
          /\ pc[c] \notin {"ready", "attempt", "pause"}
          /\ Granted(c) /\ ~ Refused(c)
    /\ pc[c] \in {"ready", "emitting", "waiting", "expired", "host"} => ~ Started(c)
    /\ pc[c] \in {"attempt", "running", "pause", "host"} \/ Started(c) =>
          Granted(c) /\ ~ Refused(c)
    /\ pc[c] = "host" \/ starts[c]["host"] > 0 =>
          asking[c] = "host" /\ acked[<<c, "host">>] = "allow_host_once"
    /\ acked[<<c, "tool">>] # "none" \/ Asks(c) => kind[c].verdict \in {"ask", "forced"}

\* A workspace tool is started once, another at most once per attempt.
IsCounted(c) ==
    /\ kind[c].profile = "workspace_sandbox" =>
          /\ starts[c]["core"] = 0 /\ pc[c] # "pause" /\ (pc[c] = "attempt" => ~ Started(c))
          /\ starts[c]["sandbox"] + starts[c]["host"] <= 1
    /\ kind[c].profile = "in_process" =>
          /\ starts[c]["sandbox"] = 0 /\ starts[c]["core"] <= attempt[c]
          /\ pc[c] \in {"attempt", "pause"} => starts[c]["core"] < attempt[c]

\* What is registered is unanswered; what a call reads is what was acknowledged.
IsAcknowledged(c) ==
    /\ \A q \in {<<c, "tool">>, <<c, "host">>} :
          /\ q \in pending =>
                /\ asking[c] = q[2] /\ acked[q] = "none"
                /\ pc[c] \in {"emitting", "waiting", "expired", "interrupted"}
                /\ pc[c] \in {"expired", "interrupted"} => future[q] = "lost"
                /\ q[2] = "tool" => ~ Started(c) /\ kind[c].verdict \in {"ask", "forced"}
          /\ acked[q] \in {"none"} \union AllowedDecisions(q)
          /\ future[q] \notin {"open", "lost"} =>
                /\ future[q] = acked[q] /\ q[2] = asking[c]
                /\ pc[c] \in {"emitting", "waiting"}
          /\ future[q] = "lost" => q[2] = asking[c] /\ pc[c] \in {"expired", "interrupted"}
    /\ LET q == <<c, asking[c]>> IN
          pc[c] \in {"emitting", "waiting"} =>
             \/ q \in pending /\ future[q] = "open"
             \/ q \notin pending /\ future[q] \in AllowedDecisions(q)

IsSound(c) == IsOrdered(c) /\ IsCounted(c) /\ IsAcknowledged(c)

\* A session allows what somebody allowed for the session.
SessionIsEarned ==
    \A k \in Kinds : session[k] = "allow" =>
        \E b \in Calls : kind[b] = k /\ acked[<<b, "tool">>] = "allow_session"

CallInv == ServerTypeOK /\ (\A c \in Calls : IsSound(c)) /\ SessionIsEarned

-------------------------------------------------------------------------------
(* The inductive invariant: the terminal *)

EventTypes == {"requested", "resolved", "finished"}
Events == [type : EventTypes, call : Calls, request : {"tool", "host"}]

\* The stream has still to tell the terminal of q.
Told(type, q) ==
    \E i \in 1 .. Len(unread) :
        unread[i].type = type /\ unread[i].call = q[1] /\ unread[i].request = q[2]

\* Somebody has heard of q.
Heard(q) ==
    \/ q \in shown \union resolved \/ reply[q] # "none"
    \/ \E m \in wire : m[1] = q
    \/ \E type \in EventTypes : Told(type, q)

\* q is still to be announced.
Unasked(q) ==
    \/ pc[q[1]] = "ready"
    \/ asking[q[1]] = "tool" /\ q[2] = "host"
    \/ asking[q[1]] = q[2] /\ pc[q[1]] = "emitting"

\* The client has used its prompt on this connection.
Sent(q) == \E m \in wire : m[1] = q /\ m[3] = drops

StreamIsTyped == unread \in Seq(Events) /\ (watched <=> link # "absent")

UnaskedAreUnheard == \A q \in Requests : Unasked(q) => ~ Heard(q)

\* What the terminal takes a prompt away for is over.
GoneAreNotPending ==
    /\ \A q \in Requests :
          q \in resolved \/ reply[q] # "none" \/ Told("resolved", q) => q \notin pending
    /\ \A q \in Requests : Told("finished", q) => pc[q[1]] = "announced"

\* Answers on their way are ones their prompts offered.
WireIsAllowed == \A m \in wire : m[2] \in AllowedDecisions(m[1])

\* A request that waits has a prompt, or will get one.
PromptsAreThere ==
    watched => \A q \in pending : pc[q[1]] = "waiting" => q \in shown \/ Told("requested", q)

\* Out of a replay, a prompt is usable, or was used on this connection.
PromptsAreUsable ==
    link = "live" /\ ~ replaying => \A q \in pending \intersect shown : q \in usable \/ Sent(q)

ReplaysAreOn ==
    /\ link \in {"attaching", "attached"} => replaying
    /\ checks => link = "live" /\ replaying

TerminalInv ==
    /\ TypeOK /\ StreamIsTyped /\ UnaskedAreUnheard /\ GoneAreNotPending
    /\ WireIsAllowed /\ PromptsAreThere /\ PromptsAreUsable /\ ReplaysAreOn

Inv == CallInv /\ TerminalInv

-------------------------------------------------------------------------------
(* The calls: what an action on one call leaves alone *)

\* The places a call is asked for.
LEMMA RequestsOfCalls ==
    /\ \A q \in Requests : q = <<q[1], q[2]>> /\ q[1] \in Calls /\ q[2] \in {"tool", "host"}
    /\ \A c \in Calls, what \in {"tool", "host"} : <<c, what>> \in Requests
  BY DEF Requests

\* A permission is never taken back.
LEMMA GrantsStay ==
    ASSUME CallInv, NEW c \in Calls, kind' = kind,
           \A q \in Requests : acked'[q] = acked[q] \/ acked[q] = "none"
    PROVE  Granted(c) => Granted(c)'
  BY RequestsOfCalls DEF Granted, Requests

\* An action on one call leaves the others as sound as they were.
LEMMA OthersStaySound ==
    ASSUME CallInv, NEW c \in Calls, NEW b \in Calls, b # c,
           kind' = kind,
           \A q \in Requests : acked'[q] = acked[q] \/ acked[q] = "none",
           pc'[b] = pc[b], asking'[b] = asking[b], attempt'[b] = attempt[b],
           starts'[b] = starts[b],
           \A q \in {<<b, "tool">>, <<b, "host">>} :
              /\ acked'[q] = acked[q] /\ future'[q] = future[q]
              /\ q \in pending' <=> q \in pending
    PROVE  IsSound(b)'
<1>1. IsSound(b)
  BY DEF CallInv
<1>2. Granted(b) => Granted(b)'
  BY GrantsStay
<1>3. Refused(b)' <=> Refused(b)
  BY DEF Refused
<1>4. Started(b)' <=> Started(b)
  BY DEF Started
<1>5. IsOrdered(b)'
  <2>1. asking[b] \in {"tool", "host"}
    BY DEF CallInv, ServerTypeOK
  <2>2. acked'[<<b, "tool">>] = acked[<<b, "tool">>] /\ acked'[<<b, "host">>] = acked[<<b, "host">>]
    OBVIOUS
  <2> QED
    BY <1>1, <1>2, <1>3, <1>4, <2>1, <2>2 DEF IsSound, IsOrdered, Asks
<1>6. IsCounted(b)'
  BY <1>1, <1>4 DEF IsSound, IsCounted
<1>7. IsAcknowledged(b)'
  <2>1. asking[b] \in {"tool", "host"}
    BY DEF CallInv, ServerTypeOK
  <2>2. \A q : AllowedDecisions(q)' = AllowedDecisions(q)
    BY DEF AllowedDecisions, ToolDecisions, HostDecisions
  <2> QED
    BY <1>1, <1>4, <2>1, <2>2 DEF IsSound, IsAcknowledged
<1> QED
  BY <1>5, <1>6, <1>7 DEF IsSound

\* So what is left to show of an action on a call is that the call itself stays sound.
LEMMA CallMovesKeepInv ==
    ASSUME CallInv, NEW c \in Calls, ServerTypeOK', IsSound(c)',
           kind' = kind, acked' = acked, session' = session \/ SessionIsEarned',
           \A b \in Calls \ {c} :
              /\ pc'[b] = pc[b] /\ asking'[b] = asking[b]
              /\ attempt'[b] = attempt[b] /\ starts'[b] = starts[b],
           \A q \in Requests : q[1] # c =>
              /\ future'[q] = future[q]
              /\ q \in pending' <=> q \in pending
    PROVE  CallInv'
<1>1. ASSUME NEW b \in Calls, b # c PROVE IsSound(b)'
  <2>1. \A q \in {<<b, "tool">>, <<b, "host">>} : q \in Requests /\ q[1] = b
    BY DEF Requests
  <2> QED
    BY <1>1, <2>1, OthersStaySound
<1>2. SessionIsEarned'
  BY DEF CallInv, SessionIsEarned
<1> QED
  BY <1>1, <1>2 DEF CallInv

\* An action that registers nothing, of a call that has nothing registered.
LEMMA CallAlone ==
    ASSUME CallInv, NEW c \in Calls, ServerTypeOK',
           UNCHANGED <<kind, acked, session, asking, pending, future>>,
           \A b \in Calls \ {c} :
              pc'[b] = pc[b] /\ attempt'[b] = attempt[b] /\ starts'[b] = starts[b],
           pc[c] \notin {"emitting", "waiting", "expired", "interrupted"},
           pc'[c] \notin {"emitting", "waiting"},
           IsOrdered(c)', IsCounted(c)'
    PROVE  CallInv'
<1>1. IsSound(c) /\ asking[c] \in {"tool", "host"}
  BY DEF CallInv, ServerTypeOK
<1>2. \A q : AllowedDecisions(q)' = AllowedDecisions(q)
  BY DEF AllowedDecisions, ToolDecisions, HostDecisions
<1>3. IsAcknowledged(c)'
  BY <1>1, <1>2 DEF IsSound, IsAcknowledged
<1>4. IsSound(c)'
  BY <1>3 DEF IsSound
<1> QED
  BY <1>4, CallMovesKeepInv

\* A tool that runs in the core starts once per attempt.
LEMMA RunInCoreKeepsCalls ==
    ASSUME CallInv, NEW c \in Calls, RunInCore(c)
    PROVE  CallInv'
<1>0. ServerTypeOK /\ IsSound(c)
  BY DEF CallInv
<1>1. ServerTypeOK'
  BY <1>0, ToolCallsAssumption DEF RunInCore, Goto, approvalVars, Start, ServerTypeOK, Labels, IsSound,
     IsCounted, IsOrdered, Started, Places
<1>2. Granted(c)' = Granted(c) /\ Refused(c)' = Refused(c)
  BY DEF RunInCore, Goto, approvalVars, Start, Granted, Refused
<1>3. IsOrdered(c)'
  BY <1>0, <1>2 DEF RunInCore, Goto, approvalVars, Start, IsSound, IsOrdered, IsCounted, Started, Asks,
     ServerTypeOK, Places
<1>4. IsCounted(c)'
  BY <1>0, ToolCallsAssumption DEF RunInCore, Goto, approvalVars, Start, IsSound, IsOrdered, IsCounted,
     Started, ServerTypeOK, Places
<1> QED
  BY <1>0, <1>1, <1>3, <1>4, CallAlone DEF RunInCore, Goto, approvalVars, Start, ServerTypeOK

\* The sandbox starts a tool that was not started.
LEMMA RunInSandboxKeepsCalls ==
    ASSUME CallInv, NEW c \in Calls, RunInSandbox(c)
    PROVE  CallInv'
<1>0. ServerTypeOK /\ IsSound(c)
  BY DEF CallInv
<1>1. ServerTypeOK'
  BY <1>0, ToolCallsAssumption DEF RunInSandbox, Goto, approvalVars, Start, ServerTypeOK, Labels, IsSound,
     IsCounted, IsOrdered, Started, Places
<1>2. Granted(c)' = Granted(c) /\ Refused(c)' = Refused(c)
  BY DEF RunInSandbox, Goto, approvalVars, Start, Granted, Refused
<1>3. IsOrdered(c)'
  BY <1>0, <1>2 DEF RunInSandbox, Goto, approvalVars, Start, IsSound, IsOrdered, IsCounted, Started, Asks,
     ServerTypeOK, Places
<1>4. IsCounted(c)'
  BY <1>0, ToolCallsAssumption DEF RunInSandbox, Goto, approvalVars, Start, IsSound, IsOrdered, IsCounted,
     Started, ServerTypeOK, Places
<1> QED
  BY <1>0, <1>1, <1>3, <1>4, CallAlone DEF RunInSandbox, Goto, approvalVars, Start, ServerTypeOK

\* So does the host, after its own approval.
LEMMA RunOnHostKeepsCalls ==
    ASSUME CallInv, NEW c \in Calls, RunOnHost(c)
    PROVE  CallInv'
<1>0. ServerTypeOK /\ IsSound(c)
  BY DEF CallInv
<1>1. ServerTypeOK'
  BY <1>0, ToolCallsAssumption DEF RunOnHost, Goto, approvalVars, Start, ServerTypeOK, Labels, IsSound,
     IsCounted, IsOrdered, Started, Places
<1>2. Granted(c)' = Granted(c) /\ Refused(c)' = Refused(c)
  BY DEF RunOnHost, Goto, approvalVars, Start, Granted, Refused
<1>3. IsOrdered(c)'
  BY <1>0, <1>2 DEF RunOnHost, Goto, approvalVars, Start, IsSound, IsOrdered, IsCounted, Started, Asks,
     ServerTypeOK, Places
<1>4. IsCounted(c)'
  BY <1>0, ToolCallsAssumption DEF RunOnHost, Goto, approvalVars, Start, IsSound, IsOrdered, IsCounted,
     Started, ServerTypeOK, Places
<1> QED
  BY <1>0, <1>1, <1>3, <1>4, CallAlone DEF RunOnHost, Goto, approvalVars, Start, ServerTypeOK

\* A call that ends changes nothing else.
LEMMA ReturnsKeepsCalls ==
    ASSUME CallInv, NEW c \in Calls, Returns(c)
    PROVE  CallInv'
<1>0. ServerTypeOK /\ IsSound(c)
  BY DEF CallInv
<1>1. ServerTypeOK'
  BY <1>0, ToolCallsAssumption DEF Returns, Goto, approvalVars, ServerTypeOK, Labels, IsSound, IsCounted,
     IsOrdered, Started, Places
<1>2. Granted(c)' = Granted(c) /\ Refused(c)' = Refused(c)
  BY DEF Returns, Goto, approvalVars, Granted, Refused
<1>3. IsOrdered(c)'
  BY <1>0, <1>2 DEF Returns, Goto, approvalVars, IsSound, IsOrdered, IsCounted, Started, Asks, ServerTypeOK,
     Places
<1>4. IsCounted(c)'
  BY <1>0, ToolCallsAssumption DEF Returns, Goto, approvalVars, IsSound, IsOrdered, IsCounted, Started,
     ServerTypeOK, Places
<1> QED
  BY <1>0, <1>1, <1>3, <1>4, CallAlone DEF Returns, Goto, approvalVars, ServerTypeOK

\* A retry makes room for one more start.
LEMMA FailsForNowKeepsCalls ==
    ASSUME CallInv, NEW c \in Calls, FailsForNow(c)
    PROVE  CallInv'
<1>0. ServerTypeOK /\ IsSound(c)
  BY DEF CallInv
<1>1. ServerTypeOK'
  BY <1>0, ToolCallsAssumption DEF FailsForNow, Goto, approvalVars, MayRetry, ServerTypeOK, Labels, IsSound,
     IsCounted, IsOrdered, Started, Places
<1>2. Granted(c)' = Granted(c) /\ Refused(c)' = Refused(c)
  BY DEF FailsForNow, Goto, approvalVars, MayRetry, Granted, Refused
<1>3. IsOrdered(c)'
  BY <1>0, <1>2 DEF FailsForNow, Goto, approvalVars, MayRetry, IsSound, IsOrdered, IsCounted, Started, Asks,
     ServerTypeOK, Places
<1>4. IsCounted(c)'
  BY <1>0, ToolCallsAssumption DEF FailsForNow, Goto, approvalVars, MayRetry, IsSound, IsOrdered, IsCounted,
     Started, ServerTypeOK, Places
<1> QED
  BY <1>0, <1>1, <1>3, <1>4, CallAlone DEF FailsForNow, Goto, approvalVars, MayRetry, ServerTypeOK

\* A retry begins as the attempt before it did.
LEMMA PauseEndsKeepsCalls ==
    ASSUME CallInv, NEW c \in Calls, PauseEnds(c)
    PROVE  CallInv'
<1>0. ServerTypeOK /\ IsSound(c)
  BY DEF CallInv
<1>1. ServerTypeOK'
  BY <1>0, ToolCallsAssumption DEF PauseEnds, Goto, approvalVars, ServerTypeOK, Labels, IsSound, IsCounted,
     IsOrdered, Started, Places
<1>2. Granted(c)' = Granted(c) /\ Refused(c)' = Refused(c)
  BY DEF PauseEnds, Goto, approvalVars, Granted, Refused
<1>3. IsOrdered(c)'
  BY <1>0, <1>2 DEF PauseEnds, Goto, approvalVars, IsSound, IsOrdered, IsCounted, Started, Asks,
     ServerTypeOK, Places
<1>4. IsCounted(c)'
  BY <1>0, ToolCallsAssumption DEF PauseEnds, Goto, approvalVars, IsSound, IsOrdered, IsCounted, Started,
     ServerTypeOK, Places
<1> QED
  BY <1>0, <1>1, <1>3, <1>4, CallAlone DEF PauseEnds, Goto, approvalVars, ServerTypeOK

\* The run of a call that returned is settled.
LEMMA RunSettlesKeepsCalls ==
    ASSUME CallInv, NEW c \in Calls, RunSettles(c)
    PROVE  CallInv'
<1>0. ServerTypeOK /\ IsSound(c)
  BY DEF CallInv
<1>1. ServerTypeOK'
  BY <1>0, ToolCallsAssumption DEF RunSettles, Goto, approvalVars, ServerTypeOK, Labels, IsSound, IsCounted,
     IsOrdered, Started, Places
<1>2. Granted(c)' = Granted(c) /\ Refused(c)' = Refused(c)
  BY DEF RunSettles, Goto, approvalVars, Granted, Refused
<1>3. IsOrdered(c)'
  BY <1>0, <1>2 DEF RunSettles, Goto, approvalVars, IsSound, IsOrdered, IsCounted, Started, Asks,
     ServerTypeOK, Places
<1>4. IsCounted(c)'
  BY <1>0, ToolCallsAssumption DEF RunSettles, Goto, approvalVars, IsSound, IsOrdered, IsCounted, Started,
     ServerTypeOK, Places
<1> QED
  BY <1>0, <1>1, <1>3, <1>4, CallAlone DEF RunSettles, Goto, approvalVars, ServerTypeOK

\* And then announced.
LEMMA RunAnnouncedKeepsCalls ==
    ASSUME CallInv, NEW c \in Calls, RunAnnounced(c)
    PROVE  CallInv'
<1>0. ServerTypeOK /\ IsSound(c)
  BY DEF CallInv
<1>1. ServerTypeOK'
  BY <1>0, ToolCallsAssumption DEF RunAnnounced, Goto, approvalVars, ServerTypeOK, Labels, IsSound,
     IsCounted, IsOrdered, Started, Places
<1>2. Granted(c)' = Granted(c) /\ Refused(c)' = Refused(c)
  BY DEF RunAnnounced, Goto, approvalVars, Granted, Refused
<1>3. IsOrdered(c)'
  BY <1>0, <1>2 DEF RunAnnounced, Goto, approvalVars, IsSound, IsOrdered, IsCounted, Started, Asks,
     ServerTypeOK, Places
<1>4. IsCounted(c)'
  BY <1>0, ToolCallsAssumption DEF RunAnnounced, Goto, approvalVars, IsSound, IsOrdered, IsCounted, Started,
     ServerTypeOK, Places
<1> QED
  BY <1>0, <1>1, <1>3, <1>4, CallAlone DEF RunAnnounced, Goto, approvalVars, ServerTypeOK

\* A request that is announced is the one that is registered.
LEMMA EmittedKeepsCalls ==
    ASSUME CallInv, NEW c \in Calls, Emitted(c)
    PROVE  CallInv'
<1>0. ServerTypeOK /\ IsSound(c)
  BY DEF CallInv
<1>1. ServerTypeOK'
  BY <1>0, RequestsOfCalls DEF Emitted, Goto, approvalVars, Publish, Event, ServerTypeOK, Labels,
     ToolDecisions, HostDecisions
<1>2. Granted(c)' = Granted(c) /\ Refused(c)' = Refused(c) /\ Started(c)' = Started(c)
  BY DEF Emitted, Goto, approvalVars, Publish, Event, Granted, Refused, Started
<1>3. asking[c] \in {"tool", "host"} /\ pc'[c] \in Labels /\ pc[c] \in Labels
  BY <1>0, <1>1 DEF ServerTypeOK
<1>4. IsOrdered(c)'
  BY <1>0, <1>2, <1>3 DEF Emitted, Goto, approvalVars, Publish, Event, IsSound, IsOrdered, IsAcknowledged,
     Asks, ServerTypeOK
<1>5. IsCounted(c)'
  BY <1>0, <1>2, <1>3 DEF Emitted, Goto, approvalVars, Publish, Event, IsSound, IsOrdered, IsCounted,
     ServerTypeOK
<1>6. IsAcknowledged(c)'
  BY <1>0, <1>2, <1>3, RequestsOfCalls DEF Emitted, Goto, approvalVars, Publish, Event, IsSound, IsOrdered,
     IsAcknowledged, ServerTypeOK, AllowedDecisions
<1>7. session' = session \/ SessionIsEarned'
  BY DEF Emitted, Goto, approvalVars, Publish, Event
<1>8. IsSound(c)'
  BY <1>4, <1>5, <1>6 DEF IsSound
<1>9. \A q \in Requests : q[1] # c => q # <<c, "tool">> /\ q # <<c, "host">> /\ q # <<c, asking[c]>>
  OBVIOUS
<1> QED
  BY <1>0, <1>1, <1>3, <1>7, <1>8, <1>9, CallMovesKeepInv DEF Emitted, Goto, approvalVars, Publish, Event,
     ServerTypeOK

\* A wait that times out loses its answer.
LEMMA TimerFiresKeepsCalls ==
    ASSUME CallInv, NEW c \in Calls, TimerFires(c)
    PROVE  CallInv'
<1>0. ServerTypeOK /\ IsSound(c)
  BY DEF CallInv
<1>1. ServerTypeOK'
  BY <1>0, RequestsOfCalls DEF TimerFires, Goto, approvalVars, ServerTypeOK, Labels, ToolDecisions,
     HostDecisions
<1>2. Granted(c)' = Granted(c) /\ Refused(c)' = Refused(c) /\ Started(c)' = Started(c)
  BY DEF TimerFires, Goto, approvalVars, Granted, Refused, Started
<1>3. asking[c] \in {"tool", "host"} /\ pc'[c] \in Labels /\ pc[c] \in Labels
  BY <1>0, <1>1 DEF ServerTypeOK
<1>4. IsOrdered(c)'
  BY <1>0, <1>2, <1>3 DEF TimerFires, Goto, approvalVars, IsSound, IsOrdered, IsAcknowledged, Asks,
     ServerTypeOK
<1>5. IsCounted(c)'
  BY <1>0, <1>2, <1>3 DEF TimerFires, Goto, approvalVars, IsSound, IsOrdered, IsCounted, ServerTypeOK
<1>6. IsAcknowledged(c)'
  BY <1>0, <1>2, <1>3, RequestsOfCalls DEF TimerFires, Goto, approvalVars, IsSound, IsOrdered,
     IsAcknowledged, ServerTypeOK, AllowedDecisions
<1>7. session' = session \/ SessionIsEarned'
  BY DEF TimerFires, Goto, approvalVars
<1>8. IsSound(c)'
  BY <1>4, <1>5, <1>6 DEF IsSound
<1>9. \A q \in Requests : q[1] # c => q # <<c, "tool">> /\ q # <<c, "host">> /\ q # <<c, asking[c]>>
  OBVIOUS
<1> QED
  BY <1>0, <1>1, <1>3, <1>7, <1>8, <1>9, CallMovesKeepInv DEF TimerFires, Goto, approvalVars, ServerTypeOK

\* Then its request is taken off the table.
LEMMA ExpiredKeepsCalls ==
    ASSUME CallInv, NEW c \in Calls, Expired(c)
    PROVE  CallInv'
<1>0. ServerTypeOK /\ IsSound(c)
  BY DEF CallInv
<1>1. ServerTypeOK'
  BY <1>0, RequestsOfCalls DEF Expired, Goto, approvalVars, Closed, Forgotten, Failed, Publish, Event,
     ServerTypeOK, Labels, ToolDecisions, HostDecisions
<1>2. Granted(c)' = Granted(c) /\ Refused(c)' = Refused(c) /\ Started(c)' = Started(c)
  BY DEF Expired, Goto, approvalVars, Closed, Forgotten, Failed, Publish, Event, Granted, Refused, Started
<1>3. asking[c] \in {"tool", "host"} /\ pc'[c] \in Labels /\ pc[c] \in Labels
  BY <1>0, <1>1 DEF ServerTypeOK
<1>4. IsOrdered(c)'
  BY <1>0, <1>2, <1>3 DEF Expired, Goto, approvalVars, Closed, Forgotten, Failed, Publish, Event, IsSound,
     IsOrdered, IsAcknowledged, Asks, ServerTypeOK
<1>5. IsCounted(c)'
  BY <1>0, <1>2, <1>3 DEF Expired, Goto, approvalVars, Closed, Forgotten, Failed, Publish, Event, IsSound,
     IsOrdered, IsCounted, ServerTypeOK
<1>6. IsAcknowledged(c)'
  BY <1>0, <1>2, <1>3, RequestsOfCalls DEF Expired, Goto, approvalVars, Closed, Forgotten, Failed, Publish,
     Event, IsSound, IsOrdered, IsAcknowledged, ServerTypeOK, AllowedDecisions
<1>7. session' = session \/ SessionIsEarned'
  BY DEF Expired, Goto, approvalVars, Closed, Forgotten, Failed, Publish, Event
<1>8. IsSound(c)'
  BY <1>4, <1>5, <1>6 DEF IsSound
<1>9. \A q \in Requests : q[1] # c => q # <<c, "tool">> /\ q # <<c, "host">> /\ q # <<c, asking[c]>>
  OBVIOUS
<1> QED
  BY <1>0, <1>1, <1>3, <1>7, <1>8, <1>9, CallMovesKeepInv DEF Expired, Goto, approvalVars, Closed,
     Forgotten, Failed, Publish, Event, ServerTypeOK

\* So does one that is interrupted,
LEMMA InterruptKeepsCalls ==
    ASSUME CallInv, NEW c \in Calls, Interrupt(c)
    PROVE  CallInv'
<1>0. ServerTypeOK /\ IsSound(c)
  BY DEF CallInv
<1>1. ServerTypeOK'
  BY <1>0, RequestsOfCalls DEF Interrupt, Goto, approvalVars, Waits, Publish, Event, ServerTypeOK, Labels,
     ToolDecisions, HostDecisions
<1>2. Granted(c)' = Granted(c) /\ Refused(c)' = Refused(c) /\ Started(c)' = Started(c)
  BY DEF Interrupt, Goto, approvalVars, Waits, Publish, Event, Granted, Refused, Started
<1>3. asking[c] \in {"tool", "host"} /\ pc'[c] \in Labels /\ pc[c] \in Labels
  BY <1>0, <1>1 DEF ServerTypeOK
<1>4. IsOrdered(c)'
  BY <1>0, <1>2, <1>3 DEF Interrupt, Goto, approvalVars, Waits, Publish, Event, IsSound, IsOrdered,
     IsAcknowledged, Asks, ServerTypeOK
<1>5. IsCounted(c)'
  BY <1>0, <1>2, <1>3 DEF Interrupt, Goto, approvalVars, Waits, Publish, Event, IsSound, IsOrdered,
     IsCounted, ServerTypeOK
<1>6. IsAcknowledged(c)'
  BY <1>0, <1>2, <1>3, RequestsOfCalls DEF Interrupt, Goto, approvalVars, Waits, Publish, Event, IsSound,
     IsOrdered, IsAcknowledged, ServerTypeOK, AllowedDecisions
<1>7. session' = session \/ SessionIsEarned'
  BY DEF Interrupt, Goto, approvalVars, Waits, Publish, Event
<1>8. IsSound(c)'
  BY <1>4, <1>5, <1>6 DEF IsSound
<1>9. \A q \in Requests : q[1] # c => q # <<c, "tool">> /\ q # <<c, "host">> /\ q # <<c, asking[c]>>
  OBVIOUS
<1> QED
  BY <1>0, <1>1, <1>3, <1>7, <1>8, <1>9, CallMovesKeepInv DEF Interrupt, Goto, approvalVars, Waits, Publish,
     Event, ServerTypeOK

\* and takes its request off the table as it unwinds.
LEMMA UnwindsKeepsCalls ==
    ASSUME CallInv, NEW c \in Calls, Unwinds(c)
    PROVE  CallInv'
<1>0. ServerTypeOK /\ IsSound(c)
  BY DEF CallInv
<1>1. ServerTypeOK'
  BY <1>0, RequestsOfCalls DEF Unwinds, Goto, approvalVars, Forgotten, Abandoned, ServerTypeOK, Labels,
     ToolDecisions, HostDecisions
<1>2. Granted(c)' = Granted(c) /\ Refused(c)' = Refused(c) /\ Started(c)' = Started(c)
  BY DEF Unwinds, Goto, approvalVars, Forgotten, Abandoned, Granted, Refused, Started
<1>3. asking[c] \in {"tool", "host"} /\ pc'[c] \in Labels /\ pc[c] \in Labels
  BY <1>0, <1>1 DEF ServerTypeOK
<1>4. IsOrdered(c)'
  BY <1>0, <1>2, <1>3 DEF Unwinds, Goto, approvalVars, Forgotten, Abandoned, IsSound, IsOrdered,
     IsAcknowledged, Asks, ServerTypeOK
<1>5. IsCounted(c)'
  BY <1>0, <1>2, <1>3 DEF Unwinds, Goto, approvalVars, Forgotten, Abandoned, IsSound, IsOrdered, IsCounted,
     ServerTypeOK
<1>6. IsAcknowledged(c)'
  BY <1>0, <1>2, <1>3, RequestsOfCalls DEF Unwinds, Goto, approvalVars, Forgotten, Abandoned, IsSound,
     IsOrdered, IsAcknowledged, ServerTypeOK, AllowedDecisions
<1>7. session' = session \/ SessionIsEarned'
  BY DEF Unwinds, Goto, approvalVars, Forgotten, Abandoned
<1>8. IsSound(c)'
  BY <1>4, <1>5, <1>6 DEF IsSound
<1>9. \A q \in Requests : q[1] # c => q # <<c, "tool">> /\ q # <<c, "host">> /\ q # <<c, asking[c]>>
  OBVIOUS
<1> QED
  BY <1>0, <1>1, <1>3, <1>7, <1>8, <1>9, CallMovesKeepInv DEF Unwinds, Goto, approvalVars, Forgotten,
     Abandoned, ServerTypeOK

\* Where a call is neither asked for nor unwinding, nothing of it is registered or answered.
LEMMA NothingOpen ==
    ASSUME CallInv, NEW c \in Calls, NEW what \in {"tool", "host"},
           pc[c] \notin {"emitting", "waiting", "expired", "interrupted"}
    PROVE  <<c, what>> \notin pending /\ future[<<c, what>>] = "open"
  BY DEF CallInv, IsSound, IsAcknowledged

\* What a session allows is granted, unless asking is forced.
LEMMA DecidedIsGranted ==
    ASSUME CallInv, NEW c \in Calls, Decided(c) = "allow"
    PROVE  Granted(c)
<1>1. kind[c] \in Kinds /\ kind[c].verdict # "forced" /\ session[kind[c]] = "allow"
  BY DEF Decided, CallInv, ServerTypeOK
<1>2. PICK b \in Calls : kind[b] = kind[c] /\ acked[<<b, "tool">>] = "allow_session"
  BY <1>1 DEF CallInv, SessionIsEarned
<1>3. kind[b].verdict \in {"ask", "forced"}
  BY <1>2 DEF CallInv, IsSound, IsOrdered
<1> QED
  BY <1>1, <1>2, <1>3 DEF Granted

\* A call that asks for a place it has not asked for, before it starts, is sound.
LEMMA AskKeepsCalls ==
    ASSUME CallInv, NEW c \in Calls, NEW what \in {"tool", "host"}, Ask(c, what),
           UNCHANGED <<made, watched, kind, attempt, session, unread, starts>>,
           pc[c] \in {"ready", "attempt"}, ~ Started(c), acked[<<c, what>>] = "none",
           what = "tool" => pc[c] = "ready" /\ kind[c].verdict \in {"ask", "forced"},
           what = "host" => pc[c] = "attempt" /\ kind[c].profile = "workspace_sandbox"
    PROVE  CallInv'
<1>0. ServerTypeOK /\ IsSound(c)
  BY DEF CallInv
<1>1. ServerTypeOK'
  BY <1>0, RequestsOfCalls DEF Ask, Goto, ServerTypeOK, Labels
<1>2. Granted(c)' = Granted(c) /\ Refused(c)' = Refused(c) /\ ~ Started(c)'
  BY DEF Ask, Granted, Refused, Started
<1>3. asking'[c] = what /\ pc'[c] = "emitting" /\ <<c, what>> \in pending'
  BY <1>0 DEF Ask, Goto, ServerTypeOK
<1>4. \A w \in {"tool", "host"} :
         <<c, w>> \notin pending /\ future[<<c, w>>] = "open"
  BY NothingOpen
<1>5. starts[c]["host"] = 0
  BY <1>0 DEF Started, ServerTypeOK, Places
<1>6. IsOrdered(c)'
  <2>1. acked' = acked /\ starts' = starts /\ kind' = kind
    BY DEF Ask
  <2>2. CASE what = "tool"
    BY <1>0, <1>2, <1>3, <1>5, <2>1, <2>2 DEF IsSound, IsOrdered, Asks
  <2>3. CASE what = "host"
    BY <1>0, <1>2, <1>3, <1>5, <2>1, <2>3 DEF IsSound, IsOrdered, Asks
  <2> QED
    BY <2>2, <2>3
<1>7. IsCounted(c)'
  BY <1>0, <1>2, <1>3 DEF IsSound, IsCounted, Ask
<1>8. IsAcknowledged(c)'
  <2>1. acked' = acked /\ future' = future /\ kind' = kind /\ pending' = pending \union {<<c, what>>}
    BY DEF Ask
  <2>2. \A q : AllowedDecisions(q)' = AllowedDecisions(q)
    BY DEF AllowedDecisions, ToolDecisions, HostDecisions
  <2> QED
    BY <1>0, <1>2, <1>3, <1>4, <2>1, <2>2 DEF IsSound, IsAcknowledged
<1>9. IsSound(c)'
  BY <1>6, <1>7, <1>8 DEF IsSound
<1>10. \A q \in Requests : q[1] # c => (q \in pending' <=> q \in pending)
  BY DEF Ask
<1> QED
  BY <1>0, <1>1, <1>9, <1>10, CallMovesKeepInv DEF Ask, Goto, ServerTypeOK

\* A call is checked: it runs as granted, fails, or asks for the first time.
LEMMA CheckKeepsCalls ==
    ASSUME CallInv, NEW c \in Calls, Check(c)
    PROVE  CallInv'
<1>0. ServerTypeOK /\ IsSound(c) /\ kind[c].verdict \in Verdicts
  BY ToolCallsAssumption DEF CallInv, ServerTypeOK
<1>1. pc[c] = "ready" /\ ~ Started(c) /\ acked[<<c, "tool">>] = "none" /\ asking[c] = "tool"
  BY <1>0 DEF Check, IsSound, IsOrdered
<1>2. UNCHANGED <<made, watched, kind, attempt, session, unread, starts>>
  BY DEF Check
<1>3. CASE UNCHANGED <<asking, approvalVars>> /\ ((Goto(c, "attempt") /\ Granted(c)) \/ Goto(c, "returned"))
  <2>1. ServerTypeOK'
    BY <1>0, <1>2, <1>3 DEF Goto, approvalVars, ServerTypeOK, Labels
  <2>2. Granted(c)' = Granted(c) /\ Refused(c)' = Refused(c) /\ Started(c)' = Started(c)
    BY <1>2, <1>3 DEF approvalVars, Granted, Refused, Started
  <2>3. pc'[c] = "returned" \/ (pc'[c] = "attempt" /\ Granted(c))
    <3>1. \A label : Goto(c, label) => pc'[c] = label
      BY <1>0 DEF Goto, ServerTypeOK
    <3> QED
      BY <1>3, <3>1
  <2>4. ~ Refused(c)
    BY <1>1 DEF Refused
  <2>5. acked' = acked /\ starts' = starts /\ kind' = kind /\ asking' = asking /\ attempt' = attempt
    BY <1>2, <1>3 DEF approvalVars
  <2>6. IsOrdered(c)'
    BY <1>0, <1>1, <2>2, <2>3, <2>4, <2>5 DEF IsSound, IsOrdered, Asks
  <2>7. IsCounted(c)'
    <3>1. starts[c]["core"] = 0 /\ attempt[c] \in Nat \ {0}
      BY <1>0, <1>1, ToolCallsAssumption DEF ServerTypeOK, Started, Places
    <3> QED
      BY <1>0, <1>1, <2>2, <2>3, <2>5, <3>1 DEF IsSound, IsCounted
  <2> QED
    BY <1>1, <1>2, <1>3, <2>1, <2>3, <2>6, <2>7, CallAlone DEF Goto, approvalVars, ServerTypeOK, CallInv
<1>4. CASE kind[c].verdict \in {"ask", "forced"} /\ Ask(c, "tool")
  BY <1>1, <1>2, <1>4, AskKeepsCalls
<1>5. kind[c].verdict = "allow" => Granted(c)
  BY DEF Granted
<1> QED
  BY <1>0, <1>3, <1>4, <1>5, DecidedIsGranted DEF Check, Failed, Verdicts

\* The host is asked for once, for a call that was granted and never started.
LEMMA SandboxFailsKeepsCalls ==
    ASSUME CallInv, NEW c \in Calls, SandboxFails(c)
    PROVE  CallInv'
<1>0. ServerTypeOK /\ IsSound(c)
  BY DEF CallInv
<1>1. /\ pc[c] \in {"attempt", "running"} /\ kind[c].profile = "workspace_sandbox"
      /\ UNCHANGED <<made, watched, kind, attempt, session, unread, starts>>
  BY DEF SandboxFails
<1>2. CASE pc[c] = "attempt" /\ Ask(c, "host")
  <2>1. ~ Started(c) /\ acked[<<c, "host">>] = "none"
    BY <1>0, <1>1, <1>2 DEF IsSound, IsOrdered, IsCounted, ServerTypeOK
  <2> QED
    BY <1>1, <1>2, <2>1, AskKeepsCalls
<1>3. CASE Failed(c) /\ UNCHANGED <<asking, approvalVars>>
  <2>1. ServerTypeOK'
    BY <1>0, <1>1, <1>3 DEF Failed, Goto, approvalVars, ServerTypeOK, Labels
  <2>2. Granted(c)' = Granted(c) /\ Refused(c)' = Refused(c) /\ Started(c)' = Started(c)
    BY <1>1, <1>3 DEF approvalVars, Granted, Refused, Started
  <2>3. pc'[c] = "returned"
    BY <1>0, <1>3 DEF Failed, Goto, ServerTypeOK
  <2>4. acked' = acked /\ starts' = starts /\ kind' = kind /\ asking' = asking /\ attempt' = attempt
    BY <1>1, <1>3 DEF approvalVars
  <2>5. IsOrdered(c)'
    BY <1>0, <1>1, <2>2, <2>3, <2>4 DEF IsSound, IsOrdered, Asks
  <2>6. IsCounted(c)'
    BY <1>0, <1>1, <2>2, <2>3, <2>4 DEF IsSound, IsCounted
  <2> QED
    BY <1>1, <1>3, <2>1, <2>3, <2>5, <2>6, CallAlone DEF Failed, Goto, approvalVars, ServerTypeOK, CallInv
<1> QED
  BY <1>2, <1>3 DEF SandboxFails, OffersHost

\* A call goes on as the answer says that was acknowledged.
LEMMA AnsweredKeepsCalls ==
    ASSUME CallInv, NEW c \in Calls, Answered(c)
    PROVE  CallInv'
<1> DEFINE what == asking[c]
           q == <<c, what>>
           d == future[q]
<1>0. ServerTypeOK /\ IsSound(c) /\ what \in {"tool", "host"} /\ q \in Requests
  BY RequestsOfCalls DEF CallInv, ServerTypeOK
<1>1. pc[c] = "waiting" /\ q \notin pending /\ d \in AllowedDecisions(q) /\ acked[q] = d
  BY <1>0 DEF Answered, IsSound, IsAcknowledged, AllowedDecisions, ToolDecisions, HostDecisions
<1>2. /\ UNCHANGED <<made, watched, kind, asking, attempt, starts, acked>>
      /\ pending' = pending \ {q} /\ future' = [future EXCEPT ![q] = "open"]
  BY DEF Answered, Closed, Forgotten
<1>3. /\ pc' = [pc EXCEPT ![c] = IF ~ Grants(d) THEN "returned"
                                 ELSE IF what = "tool" THEN "attempt" ELSE "host"]
      /\ session' = IF what = "tool" /\ Remembered(d) # "none"
                    THEN [session EXCEPT ![kind[c]] = Remembered(d)] ELSE session
  BY DEF Answered, Goto
<1>4. Granted(c)' = Granted(c) /\ Refused(c)' = Refused(c) /\ Started(c)' = Started(c)
  BY <1>2 DEF Granted, Refused, Started
<1>5. Remembered(d) \in {"none", "allow", "deny"} /\ (Remembered(d) = "allow" => d = "allow_session")
  BY DEF Remembered
<1>6. ServerTypeOK'
  <2>1. session' \in [Kinds -> {"none", "allow", "deny"}]
    BY <1>0, <1>3, <1>5 DEF ServerTypeOK
  <2>2. future' \in [Requests -> {"open", "lost"} \union ToolDecisions \union HostDecisions]
    BY <1>0, <1>2 DEF ServerTypeOK
  <2>3. pc' \in [Calls -> Labels]
    BY <1>0, <1>3 DEF ServerTypeOK, Labels
  <2> QED
    BY <1>0, <1>2, <2>1, <2>2, <2>3 DEF ServerTypeOK
<1>7. SessionIsEarned'
  <2> SUFFICES ASSUME NEW k \in Kinds, session'[k] = "allow"
               PROVE  \E b \in Calls : kind'[b] = k /\ acked'[<<b, "tool">>] = "allow_session"
    BY DEF SessionIsEarned
  <2>1. CASE session[k] = "allow"
    BY <1>2, <2>1 DEF CallInv, SessionIsEarned
  <2>2. CASE session[k] # "allow"
    <3>1. what = "tool" /\ k = kind[c] /\ Remembered(d) = "allow"
      BY <1>0, <1>3, <2>2 DEF ServerTypeOK
    <3> QED
      BY <1>1, <1>2, <1>5, <3>1
  <2> QED
    BY <2>1, <2>2
<1>8. /\ pc'[c] \in {"returned", "attempt", "host"}
      /\ pc'[c] = "attempt" => what = "tool" /\ Grants(d)
      /\ pc'[c] = "host" => what = "host" /\ Grants(d)
  BY <1>0, <1>3 DEF ServerTypeOK
<1>9. /\ what = "tool" /\ Grants(d) => d \in {"allow_once", "allow_session"}
      /\ what = "host" /\ Grants(d) => d = "allow_host_once"
  BY <1>1 DEF Grants, AllowedDecisions, ToolDecisions, HostDecisions
<1>10. pc'[c] = "attempt" => Granted(c) /\ ~ Refused(c)
  BY <1>1, <1>8, <1>9 DEF Granted, Refused
<1>11. IsOrdered(c)'
  BY <1>0, <1>1, <1>2, <1>4, <1>8, <1>9, <1>10 DEF IsSound, IsOrdered, Asks
<1>12. IsCounted(c)'
  <2>1. starts[c]["core"] = 0 /\ attempt[c] \in Nat \ {0}
    BY <1>0, <1>1, ToolCallsAssumption DEF ServerTypeOK, Started, Places, IsSound, IsOrdered
  <2>2. ~ Started(c)
    BY <1>0, <1>1 DEF IsSound, IsOrdered
  <2> QED
    BY <1>0, <1>1, <1>2, <1>4, <1>8, <2>1, <2>2 DEF IsSound, IsCounted
<1>13. IsAcknowledged(c)'
  <2>1. \A r : AllowedDecisions(r)' = AllowedDecisions(r)
    BY DEF AllowedDecisions, ToolDecisions, HostDecisions
  <2>2. \A w \in {"tool", "host"} : <<c, w>> \notin pending' /\ future'[<<c, w>>] = "open"
    BY <1>0, <1>1, <1>2, RequestsOfCalls DEF IsSound, IsAcknowledged, ServerTypeOK
  <2> QED
    BY <1>0, <1>1, <1>2, <1>8, <2>1, <2>2 DEF IsSound, IsAcknowledged
<1>14. IsSound(c)'
  BY <1>11, <1>12, <1>13 DEF IsSound
<1>15. \A r \in Requests : r[1] # c =>
          future'[r] = future[r] /\ (r \in pending' <=> r \in pending)
  BY <1>0, <1>2 DEF ServerTypeOK
<1>16. \A b \in Calls \ {c} : pc'[b] = pc[b]
  BY <1>0, <1>3 DEF ServerTypeOK
<1> QED
  BY <1>2, <1>6, <1>7, <1>14, <1>15, <1>16, CallMovesKeepInv

\* An answer is acknowledged for a call that waits, and it finds its request unanswered.
LEMMA RespondKeepsCalls ==
    ASSUME CallInv, NEW q \in Requests, NEW d, Respond(q, d)
    PROVE  CallInv'
<1> DEFINE c == q[1]
           what == q[2]
<1>0. /\ ServerTypeOK /\ c \in Calls /\ what \in {"tool", "host"} /\ q = <<c, what>>
      /\ IsSound(c) /\ d \in AllowedDecisions(q) /\ q \in pending
  BY RequestsOfCalls DEF CallInv, Respond, Taken
<1>1. /\ UNCHANGED <<made, watched, kind, pc, asking, attempt, session, starts, unread>>
      /\ pending' = pending \ {q}
      /\ future' = [future EXCEPT ![q] = IF @ = "open" THEN d ELSE @]
      /\ acked' = [acked EXCEPT ![q] = d]
  BY DEF Respond, callVars
<1>2. /\ asking[c] = what /\ acked[q] = "none" /\ future[q] \in {"open", "lost"}
      /\ pc[c] \in {"emitting", "waiting", "expired", "interrupted"}
      /\ what = "tool" => ~ Started(c) /\ kind[c].verdict \in {"ask", "forced"}
  BY <1>0 DEF IsSound, IsAcknowledged, AllowedDecisions, ToolDecisions, HostDecisions
<1>3. d \in ToolDecisions \union HostDecisions
  BY <1>0 DEF AllowedDecisions
<1>4. ServerTypeOK'
  <2>1. acked' \in [Requests -> {"none"} \union ToolDecisions \union HostDecisions]
    BY <1>0, <1>1, <1>3 DEF ServerTypeOK
  <2>2. future' \in [Requests -> {"open", "lost"} \union ToolDecisions \union HostDecisions]
    BY <1>0, <1>1, <1>3 DEF ServerTypeOK
  <2> QED
    BY <1>0, <1>1, <2>1, <2>2 DEF ServerTypeOK
<1>5. acked'[q] = d /\ \A r \in Requests : r # q => acked'[r] = acked[r]
  BY <1>0, <1>1 DEF ServerTypeOK
<1>6. future'[q] = (IF future[q] = "open" THEN d ELSE future[q])
      /\ \A r \in Requests : r # q => future'[r] = future[r]
  BY <1>0, <1>1 DEF ServerTypeOK
<1>7. \A r \in Requests : acked'[r] = acked[r] \/ acked[r] = "none"
  BY <1>2, <1>5
<1>8. ASSUME NEW b \in Calls, b # c PROVE IsSound(b)'
  <2>1. \A w \in {"tool", "host"} : <<b, w>> \in Requests /\ <<b, w>> # <<c, what>>
    BY <1>8, RequestsOfCalls
  <2>2. \A r \in {<<b, "tool">>, <<b, "host">>} :
           acked'[r] = acked[r] /\ future'[r] = future[r] /\ (r \in pending' <=> r \in pending)
    BY <1>0, <1>1, <1>5, <1>6, <2>1
  <2> QED
    BY <1>0, <1>1, <1>7, <1>8, <2>2, OthersStaySound
<1>9. Started(c)' = Started(c) /\ (Granted(c) => Granted(c)')
  BY <1>0, <1>1, <1>7, GrantsStay DEF Started
<1>10. what = "host" => Refused(c)' = Refused(c)
  BY <1>0, <1>5, RequestsOfCalls DEF Refused
<1>11. IsOrdered(c)'
  <2>1. what = "host" => acked'[<<c, "tool">>] = acked[<<c, "tool">>]
    BY <1>0, <1>5, RequestsOfCalls
  <2>2. what = "tool" => acked'[<<c, "host">>] = acked[<<c, "host">>]
    BY <1>0, <1>5, RequestsOfCalls
  <2>3. CASE what = "tool"
    BY <1>0, <1>1, <1>2, <1>9, <2>2, <2>3 DEF IsSound, IsOrdered, Asks
  <2>4. CASE what = "host"
    BY <1>0, <1>1, <1>2, <1>9, <1>10, <2>1, <2>4 DEF IsSound, IsOrdered, Asks
  <2> QED
    BY <1>0, <2>3, <2>4
<1>12. IsCounted(c)'
  BY <1>0, <1>1, <1>9 DEF IsSound, IsCounted
<1>13. IsAcknowledged(c)'
  <2>1. \A r : AllowedDecisions(r)' = AllowedDecisions(r)
    BY DEF AllowedDecisions, ToolDecisions, HostDecisions
  <2>2. ASSUME NEW w \in {"tool", "host"}, w # what
        PROVE  /\ <<c, w>> \notin pending' /\ acked'[<<c, w>>] = acked[<<c, w>>]
               /\ future'[<<c, w>>] = future[<<c, w>>]
    BY <1>0, <1>1, <1>2, <1>5, <1>6, <2>2, RequestsOfCalls DEF IsSound, IsAcknowledged
  <2>3. q \notin pending' /\ acked'[q] = d /\ pc' = pc /\ asking' = asking /\ kind' = kind
    BY <1>1, <1>5
  <2>4. \/ future'[q] = d /\ pc[c] \in {"emitting", "waiting"}
        \/ future'[q] = "lost" /\ pc[c] \in {"expired", "interrupted"}
    BY <1>0, <1>2, <1>6 DEF IsSound, IsAcknowledged
  <2>5. d \notin {"open", "lost", "none"}
    BY <1>3 DEF ToolDecisions, HostDecisions
  <2>6. ASSUME NEW r \in {<<c, "tool">>, <<c, "host">>}
        PROVE  /\ r \notin pending' /\ acked'[r] \in {"none"} \union AllowedDecisions(r)
               /\ future'[r] \notin {"open", "lost"} =>
                     /\ future'[r] = acked'[r] /\ r[2] = asking[c]
                     /\ pc[c] \in {"emitting", "waiting"}
               /\ future'[r] = "lost" => r[2] = asking[c] /\ pc[c] \in {"expired", "interrupted"}
    <3>1. CASE r = q
      BY <1>0, <1>2, <2>3, <2>4, <2>5, <3>1
    <3>2. CASE r # q
      <4>1. r = <<c, r[2]>> /\ r[2] \in {"tool", "host"} /\ r[2] # what
        BY <1>0, <3>2
      <4> QED
        BY <1>0, <2>2, <4>1 DEF IsSound, IsAcknowledged
    <3> QED
      BY <3>1, <3>2
  <2> HIDE DEF c, what
  <2> QED
    BY <1>0, <1>2, <2>1, <2>3, <2>4, <2>6 DEF IsAcknowledged
<1>14. SessionIsEarned'
  <2> SUFFICES ASSUME NEW k \in Kinds, session[k] = "allow"
               PROVE  \E b \in Calls : kind[b] = k /\ acked'[<<b, "tool">>] = "allow_session"
    BY <1>1 DEF SessionIsEarned
  <2>1. PICK b \in Calls : kind[b] = k /\ acked[<<b, "tool">>] = "allow_session"
    BY DEF CallInv, SessionIsEarned
  <2>2. acked'[<<b, "tool">>] = acked[<<b, "tool">>]
    BY <1>7, <2>1, RequestsOfCalls
  <2> QED
    BY <2>1, <2>2
<1> QED
  BY <1>0, <1>4, <1>8, <1>11, <1>12, <1>13, <1>14 DEF CallInv, IsSound

\* Every action of the server on a call keeps the calls sound.
LEMMA ServerStepKeepsCalls ==
    ASSUME CallInv, NEW c \in Calls, ServerStep(c)
    PROVE  CallInv'
BY CheckKeepsCalls, EmittedKeepsCalls, ExpiredKeepsCalls, AnsweredKeepsCalls, RunInCoreKeepsCalls,
   RunInSandboxKeepsCalls, SandboxFailsKeepsCalls, RunOnHostKeepsCalls, ReturnsKeepsCalls,
   PauseEndsKeepsCalls, UnwindsKeepsCalls, RunSettlesKeepsCalls, RunAnnouncedKeepsCalls,
   TimerFiresKeepsCalls, FailsForNowKeepsCalls, InterruptKeepsCalls
   DEF ServerStep, CallStep

\* Before the first call nothing is asked, granted or running.
LEMMA InitHasSoundCalls == ASSUME ServerInit, made \subseteq Calls, watched \in BOOLEAN PROVE CallInv
<1>1. ServerTypeOK
  BY ToolCallsAssumption DEF ServerInit, ServerTypeOK, Labels, Places
<1>2. ASSUME NEW c \in Calls PROVE IsSound(c)
  <2>1. /\ pc[c] \in {"ready", "announced"} /\ asking[c] = "tool" /\ attempt[c] = 1
        /\ \A p \in Places : starts[c][p] = 0
    BY DEF ServerInit
  <2>2. \A w \in {"tool", "host"} :
           <<c, w>> \notin pending /\ future[<<c, w>>] = "open" /\ acked[<<c, w>>] = "none"
    BY RequestsOfCalls DEF ServerInit
  <2>3. ~ Started(c)
    BY <2>1 DEF Started
  <2>4. IsOrdered(c)
    BY <2>1, <2>2, <2>3 DEF IsOrdered, Asks, Places
  <2>5. IsCounted(c)
    BY <2>1, <2>3 DEF IsCounted, Places
  <2>6. IsAcknowledged(c)
    BY <2>1, <2>2 DEF IsAcknowledged
  <2> QED
    BY <2>4, <2>5, <2>6 DEF IsSound
<1>3. SessionIsEarned
  BY DEF ServerInit, SessionIsEarned
<1> QED
  BY <1>1, <1>2, <1>3 DEF CallInv

\* Sound calls run as they were granted, and what is registered has its call.
LEMMA SoundCallsRunAsGranted == CallInv => CallsRunAsGranted
<1> SUFFICES ASSUME CallInv, NEW c \in Calls
             PROVE  /\ Started(c) => Granted(c)
                    /\ Refused(c) => ~ Started(c)
                    /\ starts[c]["host"] > 0 => acked[<<c, "host">>] = "allow_host_once"
                    /\ kind[c].profile = "workspace_sandbox" =>
                          starts[c]["sandbox"] + starts[c]["host"] <= 1
  BY DEF CallsRunAsGranted, OnlyGrantedCallsRun, WorkspaceToolsRunOnce, Refused
<1> QED
  BY DEF CallInv, IsSound, IsOrdered, IsCounted

\* With sound calls, a registered request has the call that waits for it.
LEMMA SoundRequestsHaveTheirCall == CallInv => RequestsHaveTheirCall
<1> SUFFICES ASSUME CallInv, NEW q \in pending
             PROVE  /\ asking[q[1]] = q[2]
                    /\ pc[q[1]] \in {"emitting", "waiting", "expired", "interrupted"}
  BY DEF RequestsHaveTheirCall
<1>1. q[1] \in Calls /\ q \in {<<q[1], "tool">>, <<q[1], "host">>}
  BY RequestsOfCalls DEF CallInv, ServerTypeOK
<1>2. IsAcknowledged(q[1])
  BY <1>1 DEF CallInv, IsSound
<1> QED
  BY <1>1, <1>2 DEF IsAcknowledged

-------------------------------------------------------------------------------
(* The stream *)

\* What is published is told, and nothing else that was not told before.
LEMMA PublishTells ==
    ASSUME StreamIsTyped, watched \in BOOLEAN, NEW e \in Events, Publish(e)
    PROVE  /\ unread' \in Seq(Events) /\ Len(unread') >= Len(unread)
           /\ \A type, q : Told(type, q) => Told(type, q)'
           /\ \A type, q : Told(type, q)' =>
                 Told(type, q) \/ (type = e.type /\ q[1] = e.call /\ q[2] = e.request)
           /\ watched => \A type, q :
                 type = e.type /\ q[1] = e.call /\ q[2] = e.request => Told(type, q)'
<1>1. unread \in Seq(Events) /\ Len(unread) \in Nat
  BY DEF StreamIsTyped
<1>2. CASE ~ watched
  BY <1>1, <1>2 DEF Publish, Told
<1>3. CASE watched
  <2>1. unread' = Append(unread, e)
    BY <1>3 DEF Publish
  <2>2. /\ unread' \in Seq(Events) /\ Len(unread') = Len(unread) + 1
        /\ unread'[Len(unread) + 1] = e
        /\ \A i \in 1 .. Len(unread) : unread'[i] = unread[i]
    BY <1>1, <2>1
  <2>3. ASSUME NEW type, NEW q, Told(type, q) PROVE Told(type, q)'
    <3>1. PICK i \in 1 .. Len(unread) :
             unread[i].type = type /\ unread[i].call = q[1] /\ unread[i].request = q[2]
      BY <2>3 DEF Told
    <3> QED
      BY <1>1, <2>2, <3>1 DEF Told
  <2>4. ASSUME NEW type, NEW q, Told(type, q)'
        PROVE  Told(type, q) \/ (type = e.type /\ q[1] = e.call /\ q[2] = e.request)
    <3>1. PICK i \in 1 .. Len(unread') :
             unread'[i].type = type /\ unread'[i].call = q[1] /\ unread'[i].request = q[2]
      BY <2>4 DEF Told
    <3>2. CASE i = Len(unread) + 1
      BY <2>2, <3>1, <3>2
    <3>3. CASE i # Len(unread) + 1
      BY <1>1, <2>2, <3>1, <3>3 DEF Told
    <3> QED
      BY <3>2, <3>3
  <2>5. ASSUME NEW type, NEW q, type = e.type, q[1] = e.call, q[2] = e.request
        PROVE  Told(type, q)'
    BY <1>1, <2>2, <2>5 DEF Told
  <2> QED
    BY <1>1, <2>2, <2>3, <2>4, <2>5
<1> QED
  BY <1>2, <1>3

\* Reading the stream takes its head away.
LEMMA ReadingTells ==
    ASSUME StreamIsTyped, unread # <<>>, unread' = Tail(unread)
    PROVE  /\ unread' \in Seq(Events) /\ Len(unread') = Len(unread) - 1
           /\ Len(unread) \in Nat \ {0} /\ Head(unread) \in Events
           /\ \A type, q : Told(type, q)' => Told(type, q)
           /\ \A type, q : Told(type, q) =>
                 \/ Told(type, q)'
                 \/ /\ type = Head(unread).type /\ q[1] = Head(unread).call
                    /\ q[2] = Head(unread).request
           /\ \A type, q : type = Head(unread).type /\ q[1] = Head(unread).call
                 /\ q[2] = Head(unread).request => Told(type, q)
<1>1. unread \in Seq(Events) /\ Len(unread) \in Nat \ {0}
  BY DEF StreamIsTyped
<1>2. /\ unread' \in Seq(Events) /\ Len(unread') = Len(unread) - 1
      /\ Head(unread) = unread[1] /\ Head(unread) \in Events
      /\ \A i \in 1 .. Len(unread') : unread'[i] = unread[i + 1]
  BY <1>1
<1>3. ASSUME NEW type, NEW q, Told(type, q)' PROVE Told(type, q)
  <2>1. PICK i \in 1 .. Len(unread') :
           unread'[i].type = type /\ unread'[i].call = q[1] /\ unread'[i].request = q[2]
    BY <1>3 DEF Told
  <2>2. i + 1 \in 1 .. Len(unread) /\ unread[i + 1] = unread'[i]
    BY <1>1, <1>2
  <2> QED
    BY <2>1, <2>2 DEF Told
<1>4. ASSUME NEW type, NEW q, Told(type, q),
             ~ (type = Head(unread).type /\ q[1] = Head(unread).call /\ q[2] = Head(unread).request)
      PROVE  Told(type, q)'
  <2>1. PICK i \in 1 .. Len(unread) :
           unread[i].type = type /\ unread[i].call = q[1] /\ unread[i].request = q[2]
    BY <1>4 DEF Told
  <2>2. i - 1 \in 1 .. Len(unread') /\ unread'[i - 1] = unread[i]
    <3>1. i # 1
      BY <1>2, <1>4, <2>1
    <3>2. i - 1 \in 1 .. Len(unread') /\ (i - 1) + 1 = i
      BY <1>1, <1>2, <3>1
    <3> QED
      BY <1>2, <3>2
  <2> QED
    BY <2>1, <2>2 DEF Told
<1>5. ASSUME NEW type, NEW q,
             type = Head(unread).type, q[1] = Head(unread).call, q[2] = Head(unread).request
      PROVE  Told(type, q)
  BY <1>1, <1>2, <1>5 DEF Told
<1> QED
  BY <1>1, <1>2, <1>3, <1>4, <1>5

-------------------------------------------------------------------------------
(* What the server does keeps the terminal's part of the invariant *)

\* What the server may do without disturbing the terminal: requests appear unasked, an announced
\* call stays so, and at most one event is told.
LEMMA ServerMovesKeepTerminal ==
    ASSUME Inv, CallInv', UNCHANGED terminalVars, watched' = watched,
           \A q \in Requests : Unasked(q)' => Unasked(q),
           \A q \in pending' : q \in pending \/ Unasked(q)',
           \A c \in Calls : pc[c] = "announced" => pc'[c] = "announced",
           watched => \A q \in pending' : pc'[q[1]] = "waiting" =>
              (q \in pending /\ pc[q[1]] = "waiting") \/ Told("requested", q)',
           \/ unread' = unread
           \/ \E e \in Events :
                 /\ Publish(e)
                 /\ ~ Unasked(<<e.call, e.request>>)'
                 /\ e.type = "resolved" => <<e.call, e.request>> \notin pending'
                 /\ e.type = "finished" => pc'[e.call] = "announced"
    PROVE  TerminalInv'
<1> DEFINE Says(type, q) ==
              /\ ~ Unasked(q)'
              /\ type = "resolved" => q \notin pending'
              /\ type = "finished" => pc'[q[1]] = "announced"
<1>0. TypeOK /\ ServerTypeOK' /\ StreamIsTyped /\ watched \in BOOLEAN
  BY DEF Inv, CallInv, TerminalInv, ServerTypeOK
<1>1. /\ unread' \in Seq(Events) /\ Len(unread') >= Len(unread)
      /\ \A type, q : Told(type, q) => Told(type, q)'
      /\ \A type, q : q \in Requests /\ Told(type, q)' => Told(type, q) \/ Says(type, q)
  <2>1. CASE unread' = unread
    BY <1>0, <2>1 DEF StreamIsTyped, Told
  <2>2. CASE unread' # unread
    <3>1. PICK e \in Events : /\ Publish(e)
                              /\ ~ Unasked(<<e.call, e.request>>)'
                              /\ e.type = "resolved" => <<e.call, e.request>> \notin pending'
                              /\ e.type = "finished" => pc'[e.call] = "announced"
      BY <2>2
    <3>2. ASSUME NEW type, NEW q, q \in Requests, Told(type, q)', ~ Told(type, q)
          PROVE  Says(type, q)
      <4>1. type = e.type /\ q[1] = e.call /\ q[2] = e.request
        BY <1>0, <3>1, <3>2, PublishTells
      <4>2. q = <<e.call, e.request>>
        BY <3>2, <4>1, RequestsOfCalls
      <4> QED
        BY <3>1, <4>1, <4>2
    <3> HIDE DEF Says
    <3> QED
      BY <1>0, <3>1, <3>2, PublishTells
  <2> QED
    BY <2>1, <2>2
<1>2. /\ UNCHANGED <<link, shown, usable, resolved, replaying, missing, checking, checks>>
      /\ UNCHANGED <<busy, wire, reply, drops>>
  BY DEF terminalVars, promptVars, replayVars, rpcVars
<1>3. TypeOK'
  BY <1>0, <1>1, <1>2 DEF TypeOK, StreamIsTyped, Decisions, ToolDecisions, HostDecisions
<1>4. StreamIsTyped'
  BY <1>1, <1>2 DEF Inv, TerminalInv, StreamIsTyped, Events, EventTypes
<1>5. \A q \in Requests : Unasked(q)' => ~ Heard(q)'
  <2> SUFFICES ASSUME NEW q \in Requests, Unasked(q)', Heard(q)' PROVE FALSE
    OBVIOUS
  <2>1. ~ Heard(q)
    BY DEF Inv, TerminalInv, UnaskedAreUnheard
  <2>2. \A type : Told(type, q)' => Told(type, q)
    BY <1>1
  <2> QED
    BY <1>2, <2>1, <2>2 DEF Heard, EventTypes
<1>6. UnaskedAreUnheard'
  BY <1>5 DEF UnaskedAreUnheard, Requests
<1>7. GoneAreNotPending'
  <2> SUFFICES ASSUME NEW q \in Requests
               PROVE  /\ q \in resolved \/ reply[q] # "none" \/ Told("resolved", q)' => q \notin pending'
                      /\ Told("finished", q)' => pc'[q[1]] = "announced"
    BY <1>2 DEF GoneAreNotPending, Requests
  <2>1. ASSUME q \in pending' PROVE ~ (q \in resolved \/ reply[q] # "none" \/ Told("resolved", q)')
    <3>1. Unasked(q)' => ~ (q \in resolved \/ reply[q] # "none" \/ Told("resolved", q)')
      BY <1>2, <1>5 DEF Heard, EventTypes
    <3>2. q \in pending => ~ (q \in resolved \/ reply[q] # "none" \/ Told("resolved", q))
      BY DEF Inv, TerminalInv, GoneAreNotPending
    <3> QED
      BY <1>1, <2>1, <3>1, <3>2
  <2>2. Told("finished", q)' => pc'[q[1]] = "announced"
    <3>1. Told("finished", q) => pc[q[1]] = "announced"
      BY DEF Inv, TerminalInv, GoneAreNotPending
    <3> QED
      BY <1>1, <3>1, RequestsOfCalls
  <2> QED
    BY <2>1, <2>2
<1>8. WireIsAllowed'
  BY <1>2 DEF Inv, TerminalInv, WireIsAllowed, AllowedDecisions, ToolDecisions, HostDecisions
<1>9. PromptsAreThere'
  BY <1>1, <1>2 DEF Inv, TerminalInv, PromptsAreThere
<1>10. PromptsAreUsable'
  <2> SUFFICES ASSUME link = "live", ~ replaying, NEW q \in pending', q \in shown
               PROVE  q \in usable \/ Sent(q)
    BY <1>2 DEF PromptsAreUsable, Sent
  <2>1. q \in Requests
    BY <1>0 DEF ServerTypeOK, Requests
  <2>2. ~ Unasked(q)'
    BY <1>2, <1>5, <2>1 DEF Heard
  <2> QED
    BY <2>2 DEF Inv, TerminalInv, PromptsAreUsable
<1>11. ReplaysAreOn'
  BY <1>2 DEF Inv, TerminalInv, ReplaysAreOn
<1> QED
  BY <1>3, <1>4, <1>6, <1>7, <1>8, <1>9, <1>10, <1>11 DEF TerminalInv

\* An action that asks for nothing, and publishes at most one event about its call.
LEMMA QuietMovesKeepTerminal ==
    ASSUME Inv, CallInv', UNCHANGED terminalVars, watched' = watched, asking' = asking,
           NEW c \in Calls, NEW label, Goto(c, label), pc[c] # "announced",
           label \notin {"ready", "emitting"}, pending' \subseteq pending,
           label = "waiting" => Publish(Event("requested", c)),
           \/ unread' = unread
           \/ \E type \in EventTypes :
                 /\ Publish(Event(type, c))
                 /\ type = "resolved" => <<c, asking[c]>> \notin pending'
                 /\ type = "finished" => label = "announced"
    PROVE  TerminalInv'
<1>0. /\ ServerTypeOK /\ asking[c] \in {"tool", "host"} /\ StreamIsTyped /\ watched \in BOOLEAN
      /\ pc' = [pc EXCEPT ![c] = label] /\ pc'[c] = label
  BY DEF Inv, CallInv, TerminalInv, ServerTypeOK, Goto
<1>1. \A type \in EventTypes : Event(type, c) \in Events
  BY <1>0 DEF Event, Events
<1>2. \A q \in Requests : Unasked(q)' => Unasked(q)
  BY <1>0, RequestsOfCalls DEF Unasked, ServerTypeOK
<1>3. ~ Unasked(<<c, asking[c]>>)'
  BY <1>0 DEF Unasked
<1>4. ASSUME watched, NEW q \in pending', pc'[q[1]] = "waiting"
      PROVE  (q \in pending /\ pc[q[1]] = "waiting") \/ Told("requested", q)'
  <2>1. q \in pending /\ q \in Requests
    BY DEF Inv, CallInv, ServerTypeOK
  <2>2. CASE q[1] # c
    BY <1>0, <1>4, <2>1, <2>2, RequestsOfCalls DEF ServerTypeOK
  <2>3. CASE q[1] = c
    <3>1. label = "waiting" /\ q[2] = asking[c]
      BY <1>0, <1>4, <2>1, <2>3, SoundRequestsHaveTheirCall DEF Inv, RequestsHaveTheirCall
    <3>2. Publish(Event("requested", c)) /\ Event("requested", c) \in Events
      BY <1>1, <3>1 DEF EventTypes
    <3>3. q[1] = Event("requested", c).call /\ q[2] = Event("requested", c).request
          /\ "requested" = Event("requested", c).type
      BY <2>3, <3>1 DEF Event
    <3> QED
      BY <1>0, <1>4, <3>2, <3>3, PublishTells
  <2> QED
    BY <2>2, <2>3
<1>5. \A b \in Calls : pc[b] = "announced" => pc'[b] = "announced"
  BY <1>0 DEF ServerTypeOK
<1>6. \/ unread' = unread
      \/ \E e \in Events :
            /\ Publish(e)
            /\ ~ Unasked(<<e.call, e.request>>)'
            /\ e.type = "resolved" => <<e.call, e.request>> \notin pending'
            /\ e.type = "finished" => pc'[e.call] = "announced"
  <2> SUFFICES ASSUME NEW type \in EventTypes, Publish(Event(type, c)),
                      type = "resolved" => <<c, asking[c]>> \notin pending',
                      type = "finished" => label = "announced"
               PROVE  \E e \in Events :
                         /\ Publish(e)
                         /\ ~ Unasked(<<e.call, e.request>>)'
                         /\ e.type = "resolved" => <<e.call, e.request>> \notin pending'
                         /\ e.type = "finished" => pc'[e.call] = "announced"
    OBVIOUS
  <2>1. /\ Event(type, c).type = type /\ Event(type, c).call = c
        /\ Event(type, c).request = asking[c]
    BY DEF Event
  <2> QED
    BY <1>0, <1>1, <1>3, <2>1
<1>7. \A q \in pending' : q \in pending
  OBVIOUS
<1> QED
  BY <1>2, <1>4, <1>5, <1>6, <1>7, ServerMovesKeepTerminal

\* A request is registered before anybody can hear of it.
LEMMA AskKeepsTerminal ==
    ASSUME Inv, CallInv', UNCHANGED terminalVars, watched' = watched, unread' = unread,
           NEW c \in Calls, NEW what \in {"tool", "host"}, Ask(c, what),
           \/ pc[c] = "ready"
           \/ pc[c] = "attempt" /\ asking[c] = "tool" /\ what = "host"
    PROVE  TerminalInv'
<1>0. /\ ServerTypeOK /\ asking[c] \in {"tool", "host"}
      /\ pc' = [pc EXCEPT ![c] = "emitting"] /\ asking' = [asking EXCEPT ![c] = what]
      /\ pending' = pending \union {<<c, what>>}
  BY DEF Inv, CallInv, ServerTypeOK, Ask, Goto
<1>1. pc'[c] = "emitting" /\ asking'[c] = what
  BY <1>0 DEF ServerTypeOK
<1>2. ASSUME NEW q \in Requests, Unasked(q)' PROVE Unasked(q)
  <2>1. CASE q[1] # c
    BY <1>0, <1>2, <2>1, RequestsOfCalls DEF Unasked, ServerTypeOK
  <2>2. CASE q[1] = c
    BY <1>1, <1>2, <2>2, RequestsOfCalls DEF Unasked
  <2> QED
    BY <2>1, <2>2
<1>3. Unasked(<<c, what>>)'
  BY <1>1 DEF Unasked
<1>4. \A b \in Calls : pc[b] = "announced" => pc'[b] = "announced"
  BY <1>0 DEF ServerTypeOK
<1>5. ASSUME NEW q \in pending', pc'[q[1]] = "waiting"
      PROVE  q \in pending /\ pc[q[1]] = "waiting"
  <2>1. q[1] # c
    BY <1>1, <1>5
  <2>2. q \in pending
    BY <1>0, <2>1
  <2>3. q[1] \in Calls
    BY <1>0, <2>2, RequestsOfCalls DEF ServerTypeOK
  <2> QED
    BY <1>0, <1>5, <2>1, <2>2, <2>3 DEF ServerTypeOK
<1>6. \A q \in pending' : q \in pending \/ Unasked(q)'
  BY <1>0, <1>3
<1> QED
  BY <1>2, <1>4, <1>5, <1>6, ServerMovesKeepTerminal

\* Every step of a call is one of those moves.
LEMMA ServerStepKeepsTerminal ==
    ASSUME Inv, CallInv', NEW c \in Calls, ServerStep(c), UNCHANGED terminalVars
    PROVE  TerminalInv'
<1>0. IsSound(c) /\ pc[c] \in Labels /\ asking[c] \in {"tool", "host"}
  BY DEF Inv, CallInv, ServerTypeOK
<1>1. CASE Check(c)
  <2>1. CASE Ask(c, "tool")
    BY <1>1, <2>1, AskKeepsTerminal DEF Check
  <2>2. CASE (Goto(c, "attempt") \/ Goto(c, "returned")) /\ UNCHANGED <<asking, approvalVars>>
    BY <1>1, <2>2, QuietMovesKeepTerminal DEF Check, approvalVars
  <2> QED
    BY <1>1, <2>1, <2>2 DEF Check, Failed
<1>2. CASE SandboxFails(c)
  <2>1. CASE pc[c] = "attempt" /\ Ask(c, "host")
    <3>1. asking[c] = "tool"
      BY <1>0, <2>1 DEF IsSound, IsOrdered
    <3> QED
      BY <1>2, <2>1, <3>1, AskKeepsTerminal DEF SandboxFails
  <2>2. CASE Goto(c, "returned") /\ UNCHANGED <<asking, approvalVars>>
    BY <1>2, <2>2, QuietMovesKeepTerminal DEF SandboxFails, approvalVars
  <2> QED
    BY <1>2, <2>1, <2>2 DEF SandboxFails, OffersHost, Failed
<1>3. CASE Emitted(c)
  BY <1>3, QuietMovesKeepTerminal DEF Emitted, approvalVars, EventTypes
<1>4. CASE Expired(c)
  BY <1>4, QuietMovesKeepTerminal DEF Expired, Failed, Closed, EventTypes
<1>5. CASE Answered(c)
  <2> DEFINE next == IF ~ Grants(future[<<c, asking[c]>>]) THEN "returned"
                     ELSE IF asking[c] = "tool" THEN "attempt" ELSE "host"
  <2>1. Goto(c, next) /\ pc[c] = "waiting" /\ Closed(c) /\ UNCHANGED <<watched, asking>>
    BY <1>5 DEF Answered
  <2>2. next \in {"returned", "attempt", "host"}
    OBVIOUS
  <2> HIDE DEF next
  <2> QED
    BY <2>1, <2>2, QuietMovesKeepTerminal DEF Closed, EventTypes
<1>6. CASE RunInCore(c) \/ RunInSandbox(c) \/ RunOnHost(c)
  BY <1>6, QuietMovesKeepTerminal DEF RunInCore, RunInSandbox, RunOnHost, Start, approvalVars
<1>7. CASE Returns(c) \/ PauseEnds(c) \/ RunSettles(c) \/ FailsForNow(c)
  BY <1>7, QuietMovesKeepTerminal DEF Returns, PauseEnds, RunSettles, FailsForNow, approvalVars
<1>8. CASE Unwinds(c)
  BY <1>8, QuietMovesKeepTerminal DEF Unwinds, Abandoned
<1>9. CASE RunAnnounced(c)
  BY <1>9, QuietMovesKeepTerminal DEF RunAnnounced, approvalVars, EventTypes
<1>10. CASE TimerFires(c)
  BY <1>10, QuietMovesKeepTerminal DEF TimerFires
<1>11. CASE Interrupt(c)
  BY <1>11, QuietMovesKeepTerminal DEF Interrupt, EventTypes
<1> QED
  BY <1>1, <1>2, <1>3, <1>4, <1>5, <1>6, <1>7, <1>8, <1>9, <1>10, <1>11 DEF ServerStep, CallStep

-------------------------------------------------------------------------------
(* What the terminal does keeps its part of the invariant *)

\* Steps of the terminal that leave the calls of the server alone.
LEMMA TerminalMovesKeepInv ==
    ASSUME Inv, TypeOK', watched' = watched, watched <=> link' # "absent",
           pc' = pc, asking' = asking, pending' \subseteq pending, unread' \in Seq(Events),
           \A type, q : Told(type, q)' => Told(type, q),
           \A q \in Requests : Heard(q)' => Heard(q),
           \A q \in Requests : q \in resolved' \ resolved => q \notin pending',
           \A q \in Requests : reply'[q] # "none" /\ reply[q] = "none" => q \notin pending',
           \A q \in pending' : q \in shown => q \in shown',
           \A q \in pending' : Told("requested", q) => q \in shown' \/ Told("requested", q)',
           WireIsAllowed', PromptsAreUsable', ReplaysAreOn'
    PROVE  TerminalInv'
<1>0. pending' \subseteq Requests
  BY DEF Inv, CallInv, ServerTypeOK
<1>1. StreamIsTyped'
  BY DEF StreamIsTyped, Events, EventTypes
<1>2. UnaskedAreUnheard'
  <2> SUFFICES ASSUME NEW q \in Requests, Unasked(q)' PROVE ~ Heard(q)'
    BY DEF UnaskedAreUnheard, Requests
  <2>1. Unasked(q)
    BY DEF Unasked
  <2> QED
    BY <2>1 DEF Inv, TerminalInv, UnaskedAreUnheard
<1>3. GoneAreNotPending'
  <2> SUFFICES ASSUME NEW q \in Requests
               PROVE  /\ q \in resolved' \/ reply'[q] # "none" \/ Told("resolved", q)' => q \notin pending'
                      /\ Told("finished", q)' => pc'[q[1]] = "announced"
    BY DEF GoneAreNotPending, Requests
  <2> QED
    BY DEF Inv, TerminalInv, GoneAreNotPending
<1>4. PromptsAreThere'
  <2> SUFFICES ASSUME watched, NEW q \in pending', pc[q[1]] = "waiting"
               PROVE  q \in shown' \/ Told("requested", q)'
    BY DEF PromptsAreThere
  <2>1. q \in shown \/ Told("requested", q)
    BY DEF Inv, TerminalInv, PromptsAreThere
  <2> QED
    BY <2>1
<1> QED
  BY <1>1, <1>2, <1>3, <1>4 DEF TerminalInv

\* A step that leaves the server alone leaves the calls sound and the stream as it was.
LEMMA ServerAlone ==
    ASSUME Inv, UNCHANGED serverVars
    PROVE  /\ CallInv' /\ UNCHANGED <<watched, pc, asking, pending, unread>>
           /\ unread' \in Seq(Events)
           /\ \A type, q : Told(type, q)' = Told(type, q)
<1>1. /\ UNCHANGED <<made, watched, kind, pc, asking, attempt, session, starts>>
      /\ UNCHANGED <<pending, future, acked, unread>>
  BY DEF serverVars, callVars, approvalVars
<1>2. ServerTypeOK'
  BY <1>1 DEF Inv, CallInv, ServerTypeOK, Labels, ToolDecisions, HostDecisions, Places, Requests
<1>3. SessionIsEarned'
  BY <1>1 DEF Inv, CallInv, SessionIsEarned
<1>4. ASSUME NEW c \in Calls PROVE IsSound(c)'
  <2>1. IsSound(c)
    BY DEF Inv, CallInv
  <2> QED
    BY <1>1, <2>1 DEF IsSound, IsOrdered, IsCounted, IsAcknowledged, Asks, Granted, Refused, Started,
       AllowedDecisions, ToolDecisions, HostDecisions, Places
<1>5. \A type, q : Told(type, q)' = Told(type, q)
  BY <1>1 DEF Told
<1> QED
  BY <1>1, <1>2, <1>3, <1>4, <1>5 DEF CallInv, Inv, TerminalInv, StreamIsTyped

\* An answer takes its request off the table and changes nothing a client can see.
LEMMA RespondIsQuiet ==
    ASSUME Inv, NEW q \in Requests, NEW d, Respond(q, d)
    PROVE  /\ CallInv' /\ UNCHANGED <<watched, pc, asking, unread>> /\ pending' = pending \ {q}
           /\ unread' \in Seq(Events)
           /\ \A type, r : Told(type, r)' = Told(type, r)
<1>1. /\ UNCHANGED <<watched, pc, asking, unread>> /\ pending' = pending \ {q}
  BY DEF Respond, callVars
<1>2. CallInv'
  BY RespondKeepsCalls DEF Inv
<1>3. \A type, r : Told(type, r)' = Told(type, r)
  BY <1>1 DEF Told
<1> QED
  BY <1>1, <1>2, <1>3 DEF Inv, TerminalInv, StreamIsTyped

\* A request whose call has ended is not registered.
LEMMA EndedAreNotPending ==
    ASSUME Inv, NEW q \in pending
    PROVE  pc[q[1]] \notin {"settled", "announced"}
  BY SoundRequestsHaveTheirCall DEF Inv, RequestsHaveTheirCall

\* A prompt is taken away only for a request that is over.
LEMMA ResolveKeepsInv ==
    ASSUME Inv, NEW gone, gone \subseteq shown \/ (\E q \in Requests : gone = {q}),
           \A q \in gone : q \notin pending' /\ Heard(q),
           Resolve(gone),
           TypeOK', watched' = watched, link' = link,
           pc' = pc, asking' = asking, pending' = pending, unread' \in Seq(Events),
           \A type, q : Told(type, q)' => Told(type, q),
           \A q \in pending : Told("requested", q) => Told("requested", q)',
           \A q \in Requests : reply'[q] = reply[q] \/ reply'[q] = "none",
           UNCHANGED <<wire, drops, replaying, checks>>
    PROVE  TerminalInv'
<1>0. /\ shown' = shown \ gone /\ usable' = usable \ gone /\ resolved' = resolved \union gone
      /\ watched <=> link' # "absent"
  BY DEF Resolve, Inv, TerminalInv, StreamIsTyped
<1>1. \A q \in Requests : Heard(q)' => Heard(q)
  BY <1>0 DEF Heard
<1>2. \A q \in Requests : q \in resolved' \ resolved => q \notin pending'
  BY <1>0
<1>3. \A q \in pending' : q \in shown => q \in shown'
  BY <1>0
<1>4. PromptsAreUsable'
  <2>1. \A q : Sent(q)' = Sent(q)
    BY DEF Sent
  <2> QED
    BY <1>0, <2>1 DEF Inv, TerminalInv, PromptsAreUsable
<1>5. ReplaysAreOn' /\ WireIsAllowed'
  BY DEF Inv, TerminalInv, ReplaysAreOn, WireIsAllowed, AllowedDecisions, ToolDecisions, HostDecisions
<1> QED
  BY <1>0, <1>1, <1>2, <1>3, <1>4, <1>5, TerminalMovesKeepInv

\* The terminal takes the next event of its stream.
LEMMA DeliverKeepsInv == ASSUME Inv, Deliver PROVE Inv'
<1> DEFINE event == Head(unread)
           q == <<event.call, event.request>>
<1>0. /\ TypeOK /\ StreamIsTyped /\ link = "live" /\ unread # <<>> /\ unread' = Tail(unread)
      /\ missing' = IF missing = 0 THEN 0 ELSE missing - 1
      /\ UNCHANGED <<callVars, approvalVars, link, replaying, checking, checks, rpcVars, drops>>
  BY DEF Deliver, Inv, TerminalInv
<1>1. /\ UNCHANGED <<made, watched, kind, pc, asking, attempt, session, starts>>
      /\ UNCHANGED <<pending, future, acked, link, replaying, checking, checks, wire, reply, drops>>
  BY <1>0 DEF callVars, approvalVars, rpcVars
<1>2. CallInv'
  <2>1. ServerTypeOK'
    BY <1>1 DEF Inv, CallInv, ServerTypeOK, Labels, ToolDecisions, HostDecisions, Places, Requests
  <2>2. SessionIsEarned'
    BY <1>1 DEF Inv, CallInv, SessionIsEarned
  <2>3. ASSUME NEW c \in Calls PROVE IsSound(c)'
    <3>1. IsSound(c)
      BY DEF Inv, CallInv
    <3> QED
      BY <1>1, <3>1 DEF IsSound, IsOrdered, IsCounted, IsAcknowledged, Asks, Granted, Refused, Started,
         AllowedDecisions, ToolDecisions, HostDecisions, Places
  <2> QED
    BY <2>1, <2>2, <2>3 DEF CallInv
<1>3. /\ unread' \in Seq(Events) /\ Len(unread') = Len(unread) - 1 /\ Len(unread) \in Nat \ {0}
      /\ event \in Events /\ \A type, r : Told(type, r)' => Told(type, r)
  BY <1>0, ReadingTells
<1>4. /\ event.type \in EventTypes /\ q \in Requests /\ q[1] = event.call /\ q[2] = event.request
  BY <1>3 DEF Events, Requests
<1>5. Told(event.type, q) /\ Heard(q)
  BY <1>0, <1>4, ReadingTells DEF Heard
<1>6. \A type, r : Told(type, r) /\ r \in Requests =>
         Told(type, r)' \/ (type = event.type /\ r = q)
  <2>1. \A type, r : Told(type, r) => Told(type, r)' \/ (type = event.type /\ r[1] = q[1] /\ r[2] = q[2])
    BY <1>0, <1>4, ReadingTells
  <2> QED
    BY <1>4, <2>1, RequestsOfCalls
<1>7. missing' \in 0 .. Len(unread')
  BY <1>0, <1>3 DEF TypeOK
<1> HIDE DEF q, event
<1>8. CASE event.type = "requested"
  <2>1. ShowPrompt(q) /\ UNCHANGED busy
    BY <1>8 DEF Deliver, event, q
  <2>2. /\ resolved' = resolved /\ shown \subseteq shown' /\ shown' \subseteq shown \union {q}
        /\ usable' \subseteq shown' /\ usable \subseteq usable'
        /\ q \in shown' \/ q \in resolved
        /\ ~ replaying => \A r \in shown' : r \in shown \/ r \in usable'
    BY <1>0, <2>1 DEF ShowPrompt, promptVars, TypeOK
  <2>3. TypeOK'
    BY <1>0, <1>1, <1>2, <1>4, <1>7, <2>1, <2>2 DEF TypeOK, CallInv, Decisions, ToolDecisions,
       HostDecisions, Requests
  <2>4. \A r \in Requests : Heard(r)' => Heard(r)
    BY <1>1, <1>3, <1>5, <2>2 DEF Heard
  <2>5. ASSUME NEW r \in pending', Told("requested", r) PROVE r \in shown' \/ Told("requested", r)'
    <3>1. r \in pending /\ r \in Requests
      BY <1>1 DEF Inv, CallInv, ServerTypeOK
    <3>2. r \notin resolved
      BY <3>1 DEF Inv, TerminalInv, GoneAreNotPending
    <3> QED
      BY <1>6, <2>2, <2>5, <3>1, <3>2
  <2>6. PromptsAreUsable'
    <3>1. \A r : Sent(r)' = Sent(r)
      BY <1>1 DEF Sent
    <3> QED
      BY <1>0, <1>1, <2>2, <3>1 DEF Inv, TerminalInv, PromptsAreUsable
  <2>7. ReplaysAreOn' /\ WireIsAllowed' /\ (watched <=> link' # "absent")
    BY <1>1 DEF Inv, TerminalInv, ReplaysAreOn, WireIsAllowed, AllowedDecisions, ToolDecisions, HostDecisions,
       StreamIsTyped
  <2>8. TerminalInv'
    BY <1>1, <1>3, <2>2, <2>3, <2>4, <2>5, <2>6, <2>7, TerminalMovesKeepInv
  <2> QED
    BY <1>2, <2>8 DEF Inv
<1>9. ASSUME NEW gone, gone \subseteq shown \/ gone = {q}, Resolve(gone), busy' \in BOOLEAN,
             \A r \in gone : r \notin pending /\ Heard(r), event.type # "requested"
      PROVE  Inv'
  <2>1. TypeOK'
    <3>1. shown' \subseteq Requests /\ usable' \subseteq shown' /\ resolved' \subseteq Requests
      BY <1>0, <1>4, <1>9 DEF Resolve, TypeOK
    <3> QED
      BY <1>0, <1>1, <1>2, <1>7, <1>9, <3>1 DEF TypeOK, CallInv, Decisions, ToolDecisions, HostDecisions,
         Requests
  <2>2. \A r \in pending : Told("requested", r) => Told("requested", r)'
    BY <1>6, <1>9 DEF Inv, CallInv, ServerTypeOK
  <2>3. TerminalInv'
    BY <1>1, <1>3, <1>4, <1>9, <2>1, <2>2, ResolveKeepsInv
  <2> QED
    BY <1>2, <2>3 DEF Inv
<1>10. CASE event.type = "resolved"
  <2>1. Resolve({q}) /\ UNCHANGED busy
    BY <1>10 DEF Deliver, event, q
  <2>2. q \notin pending
    BY <1>4, <1>5, <1>10 DEF Inv, TerminalInv, GoneAreNotPending
  <2> QED
    BY <1>0, <1>5, <1>9, <1>10, <2>1, <2>2 DEF TypeOK
<1>11. CASE event.type = "finished"
  <2>1. Resolve(PromptsOf(event.call)) /\ busy' = (busy /\ event.call # Root)
    BY <1>11 DEF Deliver, ClearedByEnd, event, q
  <2>2. pc[event.call] = "announced"
    BY <1>4, <1>5, <1>11 DEF Inv, TerminalInv, GoneAreNotPending
  <2>3. \A r \in PromptsOf(event.call) : r \in shown /\ r \notin pending
    BY <2>2, EndedAreNotPending DEF PromptsOf
  <2>4. \A r \in PromptsOf(event.call) : r \notin pending /\ Heard(r)
    BY <2>3 DEF Heard
  <2>5. PromptsOf(event.call) \subseteq shown /\ busy' \in BOOLEAN
    BY <1>0, <2>1 DEF PromptsOf, TypeOK
  <2> QED
    BY <1>9, <1>11, <2>1, <2>4, <2>5
<1> QED
  BY <1>4, <1>8, <1>10, <1>11 DEF EventTypes

\* A prompt is used once on a connection, with a choice it offers.
LEMMA DecideKeepsInv ==
    ASSUME Inv, NEW q \in Requests, NEW d \in Decisions, Decide(q, d) PROVE Inv'
<1>0. /\ UNCHANGED <<serverVars, link, shown, resolved, replayVars, busy, reply, drops>>
      /\ UNCHANGED <<replaying, missing, checking, checks>>
      /\ q \in usable /\ d \in AllowedDecisions(q) /\ usable' = usable \ {q}
      /\ wire' = wire \union {<<q, d, drops>>} /\ TypeOK
  BY DEF Decide, Choices, replayVars, Inv, TerminalInv
<1>1. /\ CallInv' /\ UNCHANGED <<watched, pc, asking, pending, unread>>
      /\ unread' \in Seq(Events) /\ \A type, r : Told(type, r)' = Told(type, r)
  BY <1>0, ServerAlone
<1>2. TypeOK'
  BY <1>0, <1>1 DEF TypeOK, CallInv, Decisions, ToolDecisions, HostDecisions, Requests
<1>3. \A r \in Requests : Heard(r)' => Heard(r)
  BY <1>0, <1>1 DEF Heard, TypeOK
<1>4. PromptsAreUsable'
  <2>1. \A r : Sent(r) => Sent(r)'
    BY <1>0 DEF Sent
  <2>2. Sent(q)'
    <3>1. <<q, d, drops>> \in wire' /\ drops' = drops
      BY <1>0
    <3> DEFINE m == <<q, d, drops>>
    <3>2. m \in wire' /\ m[1] = q /\ m[3] = drops'
      BY <3>1
    <3> HIDE DEF m
    <3> QED
      BY <3>2 DEF Sent
  <2> QED
    BY <1>0, <1>1, <2>1, <2>2 DEF Inv, TerminalInv, PromptsAreUsable
<1>5. WireIsAllowed'
  BY <1>0 DEF Inv, TerminalInv, WireIsAllowed, AllowedDecisions, ToolDecisions, HostDecisions
<1>6. ReplaysAreOn' /\ (watched <=> link' # "absent")
  BY <1>0 DEF Inv, TerminalInv, ReplaysAreOn, StreamIsTyped
<1>7. TerminalInv'
  BY <1>0, <1>1, <1>2, <1>3, <1>4, <1>5, <1>6, TerminalMovesKeepInv
<1> QED
  BY <1>1, <1>7 DEF Inv

\* An answer that was served has no request left, whether or not it was taken.
LEMMA ServedKeepsInv ==
    ASSUME Inv, NEW q \in Requests, NEW d \in Decisions, NEW n, Served(q, d, n) PROVE Inv'
<1>0. /\ UNCHANGED <<link, promptVars, replayVars, busy, drops>>
      /\ UNCHANGED <<replaying, missing, checking, checks, shown, usable, resolved>>
      /\ <<q, d, n>> \in wire /\ wire' = wire \ {<<q, d, n>>} /\ TypeOK
      /\ reply' \in {reply, [reply EXCEPT ![q] = "received"]}
  BY DEF Served, replayVars, promptVars, Inv, TerminalInv
<1>1. /\ CallInv' /\ UNCHANGED <<watched, pc, asking, unread>>
      /\ pending' \subseteq pending /\ q \notin pending'
      /\ unread' \in Seq(Events) /\ \A type, r : Told(type, r)' = Told(type, r)
  <2>1. CASE Taken(q, d)
    <3>1. Respond(q, d)
      BY <2>1 DEF Served
    <3> QED
      BY <3>1, RespondIsQuiet
  <2>2. CASE ~ Taken(q, d)
    <3>1. UNCHANGED serverVars
      BY <2>2 DEF Served
    <3>2. d \in AllowedDecisions(q)
      BY <1>0 DEF Inv, TerminalInv, WireIsAllowed
    <3>3. q \notin pending
      BY <2>2, <3>2 DEF Taken
    <3> QED
      BY <3>1, <3>3, ServerAlone
  <2> QED
    BY <2>1, <2>2
<1>2. reply' \in [Requests -> {"none", "received"}] /\ \A r \in Requests : r # q => reply'[r] = reply[r]
  BY <1>0 DEF TypeOK
<1>3. TypeOK'
  BY <1>0, <1>1, <1>2 DEF TypeOK, CallInv, Decisions, ToolDecisions, HostDecisions, Requests
<1>4. \A r \in Requests : Heard(r)' => Heard(r)
  <2>1. Heard(q)
    BY <1>0 DEF Heard
  <2> QED
    BY <1>0, <1>1, <1>2, <2>1 DEF Heard
<1>5. PromptsAreUsable'
  <2>1. ASSUME NEW r, Sent(r), r # q PROVE Sent(r)'
    <3>1. PICK m \in wire : m[1] = r /\ m[3] = drops
      BY <2>1 DEF Sent
    <3>2. m # <<q, d, n>>
      BY <2>1, <3>1
    <3> QED
      BY <1>0, <3>1, <3>2 DEF Sent
  <2> QED
    BY <1>0, <1>1, <2>1 DEF Inv, TerminalInv, PromptsAreUsable
<1>6. ReplaysAreOn' /\ WireIsAllowed' /\ (watched <=> link' # "absent")
  BY <1>0 DEF Inv, TerminalInv, ReplaysAreOn, StreamIsTyped, WireIsAllowed, AllowedDecisions, ToolDecisions,
     HostDecisions
<1>7. \A r \in Requests : reply'[r] # "none" /\ reply[r] = "none" => r \notin pending'
  BY <1>1, <1>2
<1>8. TerminalInv'
  BY <1>0, <1>1, <1>3, <1>4, <1>5, <1>6, <1>7, TerminalMovesKeepInv
<1> QED
  BY <1>1, <1>8 DEF Inv

\* The terminal learns that its answer was accepted, or came too late.
LEMMA ReceivedKeepsInv == ASSUME Inv, NEW q \in Requests, Received(q) PROVE Inv'
<1>0. /\ UNCHANGED <<serverVars, link, replayVars, busy, wire, drops>>
      /\ UNCHANGED <<replaying, missing, checking, checks>> /\ Resolve({q}) /\ TypeOK
      /\ reply[q] # "none" /\ reply' = [reply EXCEPT ![q] = "none"]
  BY DEF Received, replayVars, Inv, TerminalInv
<1>1. /\ CallInv' /\ UNCHANGED <<watched, pc, asking, pending, unread>>
      /\ unread' \in Seq(Events) /\ \A type, r : Told(type, r)' = Told(type, r)
  BY <1>0, ServerAlone
<1>2. reply' \in [Requests -> {"none", "received"}]
      /\ \A r \in Requests : reply'[r] = reply[r] \/ reply'[r] = "none"
  BY <1>0 DEF TypeOK
<1>3. TypeOK'
  <2>1. shown' \subseteq Requests /\ usable' \subseteq shown' /\ resolved' \subseteq Requests
    BY <1>0 DEF Resolve, TypeOK
  <2> QED
    BY <1>0, <1>1, <1>2, <2>1 DEF TypeOK, CallInv, Decisions, ToolDecisions, HostDecisions, Requests
<1>4. q \notin pending' /\ Heard(q)
  BY <1>0, <1>1 DEF Inv, TerminalInv, GoneAreNotPending, Heard
<1>5. TerminalInv'
  BY <1>0, <1>1, <1>2, <1>3, <1>4, ResolveKeepsInv
<1> QED
  BY <1>1, <1>5 DEF Inv

\* The state of a run arrives; prompts of a settled run are taken away.
LEMMA CheckRunKeepsInv == ASSUME Inv, NEW c \in Calls, CheckRun(c) PROVE Inv'
<1> DEFINE gone == IF pc[c] \in {"settled", "announced"} THEN PromptsOf(c) ELSE {}
<1>0. /\ UNCHANGED <<serverVars, link, replaying, missing, checks, busy, rpcVars, drops>>
      /\ UNCHANGED <<wire, reply>> /\ Resolve(gone) /\ TypeOK /\ checking' = checking \ {c}
  BY DEF CheckRun, Resolve, rpcVars, promptVars, Inv, TerminalInv
<1>1. /\ CallInv' /\ UNCHANGED <<watched, pc, asking, pending, unread>>
      /\ unread' \in Seq(Events) /\ \A type, r : Told(type, r)' = Told(type, r)
  BY <1>0, ServerAlone
<1>2. gone \subseteq shown /\ \A q \in gone : q \notin pending
  BY EndedAreNotPending DEF PromptsOf
<1> HIDE DEF gone
<1>3. TypeOK'
  <2>1. shown' \subseteq Requests /\ usable' \subseteq shown' /\ resolved' \subseteq Requests
    BY <1>0, <1>2 DEF Resolve, TypeOK
  <2> QED
    BY <1>0, <1>1, <2>1 DEF TypeOK, CallInv, Decisions, ToolDecisions, HostDecisions, Requests
<1>4. \A q \in gone : q \notin pending' /\ Heard(q)
  BY <1>1, <1>2 DEF Heard
<1>5. TerminalInv'
  BY <1>0, <1>1, <1>2, <1>3, <1>4, ResolveKeepsInv
<1> QED
  BY <1>1, <1>5 DEF Inv

\* Another client answers a request.
LEMMA OtherAnswersKeepsInv ==
    ASSUME Inv, NEW q \in Requests, NEW d \in Decisions, OtherAnswers(q, d) PROVE Inv'
<1>0. /\ UNCHANGED <<link, shown, usable, resolved, replaying, missing, checking, checks>>
      /\ UNCHANGED <<busy, wire, reply, drops>> /\ Respond(q, d) /\ TypeOK
  BY DEF OtherAnswers, promptVars, replayVars, rpcVars, Inv, TerminalInv
<1>1. /\ CallInv' /\ UNCHANGED <<watched, pc, asking, unread>> /\ pending' = pending \ {q}
      /\ unread' \in Seq(Events) /\ \A type, r : Told(type, r)' = Told(type, r)
  BY <1>0, RespondIsQuiet
<1>2. TypeOK'
  BY <1>0, <1>1 DEF TypeOK, CallInv, Decisions, ToolDecisions, HostDecisions, Requests
<1>3. \A r \in Requests : Heard(r)' => Heard(r)
  BY <1>0, <1>1 DEF Heard
<1>4. PromptsAreUsable'
  BY <1>0, <1>1 DEF Inv, TerminalInv, PromptsAreUsable, Sent
<1>5. ReplaysAreOn' /\ WireIsAllowed' /\ (watched <=> link' # "absent")
  BY <1>0 DEF Inv, TerminalInv, ReplaysAreOn, StreamIsTyped, WireIsAllowed, AllowedDecisions, ToolDecisions,
     HostDecisions
<1>6. TerminalInv'
  BY <1>0, <1>1, <1>2, <1>3, <1>4, <1>5, TerminalMovesKeepInv
<1> QED
  BY <1>1, <1>6 DEF Inv

\* Connecting, and catching up, shows and resolves nothing.
LEMMA ConnectionKeepsInv ==
    ASSUME Inv, UNCHANGED <<serverVars, shown, resolved>>, TypeOK',
           link # "absent", link' # "absent",
           wire' \subseteq wire, \A q \in Requests : reply'[q] \in {reply[q], "none"},
           PromptsAreUsable', ReplaysAreOn'
    PROVE  Inv'
<1>1. /\ CallInv' /\ UNCHANGED <<watched, pc, asking, pending, unread>>
      /\ unread' \in Seq(Events) /\ \A type, r : Told(type, r)' = Told(type, r)
  BY ServerAlone
<1>2. \A r \in Requests : Heard(r)' => Heard(r)
  BY <1>1 DEF Heard
<1>3. WireIsAllowed' /\ (watched <=> link' # "absent")
  BY DEF Inv, TerminalInv, StreamIsTyped, WireIsAllowed, AllowedDecisions, ToolDecisions, HostDecisions
<1>4. \A q \in Requests : reply'[q] # "none" /\ reply[q] = "none" => q \notin pending'
  OBVIOUS
<1>5. TerminalInv'
  BY <1>1, <1>2, <1>3, <1>4, TerminalMovesKeepInv
<1> QED
  BY <1>1, <1>5 DEF Inv

\* The connection is lost, and with it what was on the wire.
LEMMA DropKeepsInv == ASSUME Inv, Drop PROVE Inv'
<1>1. /\ TypeOK /\ UNCHANGED <<serverVars, shown, resolved, replaying, missing, busy>>
      /\ link # "absent" /\ link' = "down" /\ wire' \subseteq wire /\ usable' = {} /\ checking' = {}
      /\ ~ checks' /\ checks' \in BOOLEAN /\ drops' = drops + 1 /\ drops < Drops /\ reply' = NotAnswered
  BY DEF Drop, Inv, TerminalInv
<1>2. CallInv' /\ unread' = unread
  BY <1>1, ServerAlone
<1>3. drops' \in 0 .. Drops
  BY <1>1, ApprovalsAssumption DEF TypeOK
<1>4. TypeOK'
  BY <1>1, <1>2, <1>3 DEF TypeOK, CallInv, Decisions, ToolDecisions, HostDecisions, Requests, NotAnswered
<1>5. PromptsAreUsable' /\ ReplaysAreOn'
  BY <1>1 DEF PromptsAreUsable, ReplaysAreOn
<1>6. \A q \in Requests : reply'[q] \in {reply[q], "none"}
  BY <1>1 DEF NotAnswered
<1> QED
  BY <1>1, <1>4, <1>5, <1>6, ConnectionKeepsInv

\* The terminal connects again and begins its replay.
LEMMA ConnectKeepsInv == ASSUME Inv, Connect PROVE Inv'
<1>1. /\ TypeOK
           /\ UNCHANGED <<serverVars, shown, resolved, missing, checking, checks, busy, wire, reply, drops>>
      /\ link = "down" /\ link' = "attaching" /\ usable' = {} /\ replaying' /\ replaying' \in BOOLEAN
      /\ ~ checks
  BY DEF Connect, rpcVars, Inv, TerminalInv, ReplaysAreOn
<1>2. CallInv' /\ unread' = unread
  BY <1>1, ServerAlone
<1>3. TypeOK'
  BY <1>1, <1>2 DEF TypeOK, CallInv, Decisions, ToolDecisions, HostDecisions, Requests
<1>4. PromptsAreUsable' /\ ReplaysAreOn'
  BY <1>1 DEF PromptsAreUsable, ReplaysAreOn
<1> QED
  BY <1>1, <1>3, <1>4, ConnectionKeepsInv

\* The session is attached to again, and its events are subscribed to.
LEMMA AttachKeepsInv == ASSUME Inv, Attach \/ Subscribe PROVE Inv'
<1>1. /\ TypeOK /\ UNCHANGED <<serverVars, shown, usable, resolved, replaying, checking, checks>>
      /\ UNCHANGED <<wire, reply, drops>> /\ busy' \in BOOLEAN
      /\ link \in {"attaching", "attached"} /\ link' \in {"attached", "live"} /\ replaying /\ ~ checks
      /\ missing' \in {missing, Len(unread)} /\ StreamIsTyped
  BY DEF Attach, Subscribe, rpcVars, promptVars, replayVars, Inv, TerminalInv, ReplaysAreOn, TypeOK
<1>2. CallInv' /\ unread' = unread
  BY <1>1, ServerAlone
<1>3. missing' \in 0 .. Len(unread)
  BY <1>1 DEF TypeOK, StreamIsTyped
<1>4. TypeOK'
  BY <1>1, <1>2, <1>3 DEF TypeOK, CallInv, Decisions, ToolDecisions, HostDecisions, Requests
<1>5. PromptsAreUsable' /\ ReplaysAreOn'
  BY <1>1 DEF PromptsAreUsable, ReplaysAreOn
<1> QED
  BY <1>1, <1>4, <1>5, ConnectionKeepsInv

\* Once the replay is complete the terminal asks for its runs, and then makes its prompts usable.
LEMMA ChecksKeepInv == ASSUME Inv, StartChecks \/ EndChecks PROVE Inv'
<1>1. /\ TypeOK /\ UNCHANGED <<serverVars, link, shown, resolved, missing, busy, wire, reply, drops>>
      /\ link = "live" /\ checking' \subseteq Calls /\ {checks', replaying'} \subseteq BOOLEAN
      /\ \/ replaying' /\ usable' = usable
         \/ ~ checks' /\ ~ replaying' /\ usable' = shown
  <2>1. TypeOK /\ (checks => link = "live" /\ replaying)
    BY DEF Inv, TerminalInv, ReplaysAreOn
  <2>2. \A q \in shown : q[1] \in Calls
    BY <2>1, RequestsOfCalls DEF TypeOK
  <2>3. CASE StartChecks
    BY <2>1, <2>2, <2>3 DEF StartChecks, rpcVars, promptVars, TypeOK
  <2>4. CASE EndChecks
    BY <2>1, <2>4 DEF EndChecks, MadeUsable, rpcVars, TypeOK
  <2> QED
    BY <2>3, <2>4
<1>2. CallInv' /\ unread' = unread
  BY <1>1, ServerAlone
<1>3. TypeOK'
  BY <1>1, <1>2 DEF TypeOK, CallInv, Decisions, ToolDecisions, HostDecisions, Requests
<1>4. PromptsAreUsable' /\ ReplaysAreOn'
  BY <1>1 DEF PromptsAreUsable, ReplaysAreOn
<1> QED
  BY <1>1, <1>3, <1>4, ConnectionKeepsInv

-------------------------------------------------------------------------------
(* Theorems *)

\* The initial states have the invariant.
LEMMA InitHasInv == Init => Inv
<1> SUFFICES ASSUME Init PROVE Inv
  OBVIOUS
<1>1. PICK scene \in Scenes : made = scene.calls /\ watched = scene.terminal
                              /\ link = IF scene.terminal THEN "live" ELSE "absent"
  BY DEF Init
<1>2. made \subseteq Calls /\ watched \in BOOLEAN /\ (watched <=> link # "absent")
        /\ link \in {"live", "absent"}
  BY <1>1, ApprovalsAssumption
<1>3. /\ CallInv /\ unread = <<>> /\ pending = {}
      /\ shown = {} /\ usable = {} /\ resolved = {} /\ replaying = FALSE /\ missing = 0
      /\ checking = {} /\ checks = FALSE /\ busy = TRUE /\ wire = {} /\ reply = NotAnswered /\ drops = 0
  BY <1>2, InitHasSoundCalls DEF Init, ServerInit
<1>4. TypeOK
  <2>1. missing \in 0 .. Len(unread) /\ drops \in 0 .. Drops
    BY <1>3, ApprovalsAssumption
  <2>2. reply \in [Requests -> {"none", "received"}]
    BY <1>3 DEF NotAnswered
  <2> QED
    BY <1>2, <1>3, <2>1, <2>2 DEF TypeOK, CallInv
<1>5. \A type, q : ~ Told(type, q)
  BY <1>3 DEF Told
<1>6. \A q \in Requests : ~ Heard(q)
  BY <1>3, <1>5 DEF Heard, NotAnswered
<1>7. StreamIsTyped
  BY <1>2, <1>3 DEF StreamIsTyped
<1>8. UnaskedAreUnheard /\ GoneAreNotPending /\ WireIsAllowed /\ PromptsAreThere /\ PromptsAreUsable
  BY <1>3, <1>5, <1>6 DEF UnaskedAreUnheard, GoneAreNotPending, WireIsAllowed, PromptsAreThere,
     PromptsAreUsable
<1>9. ReplaysAreOn
  BY <1>2, <1>3 DEF ReplaysAreOn
<1> QED
  BY <1>3, <1>4, <1>7, <1>8, <1>9 DEF Inv, TerminalInv

\* Every step keeps the invariant.
LEMMA NextKeepsInv == Inv /\ [Next]_vars => Inv'
<1> SUFFICES ASSUME Inv, [Next]_vars PROVE Inv'
  OBVIOUS
<1>1. ASSUME NEW c \in Calls, ServerStep(c), UNCHANGED terminalVars PROVE Inv'
  <2>1. CallInv'
    BY <1>1, ServerStepKeepsCalls DEF Inv
  <2> QED
    BY <1>1, <2>1, ServerStepKeepsTerminal DEF Inv
<1>2. CASE UNCHANGED vars
  <2>1. /\ UNCHANGED serverVars
        /\ UNCHANGED <<link, shown, usable, resolved, replaying, missing, checking, checks>>
        /\ UNCHANGED <<busy, wire, reply, drops>>
    BY <1>2 DEF vars, terminalVars, promptVars, replayVars, rpcVars
  <2>2. /\ CallInv' /\ UNCHANGED <<watched, pc, asking, pending, unread>>
        /\ unread' \in Seq(Events) /\ \A type, r : Told(type, r)' = Told(type, r)
    BY <2>1, ServerAlone
  <2>3. TypeOK'
    BY <2>1, <2>2 DEF Inv, TerminalInv, TypeOK, CallInv, Decisions, ToolDecisions, HostDecisions, Requests
  <2>4. PromptsAreUsable' /\ ReplaysAreOn' /\ WireIsAllowed' /\ (watched <=> link' # "absent")
    BY <2>1, <2>2 DEF Inv, TerminalInv, PromptsAreUsable, Sent, ReplaysAreOn, WireIsAllowed, StreamIsTyped,
       AllowedDecisions, ToolDecisions, HostDecisions
  <2>5. \A r \in Requests : Heard(r)' => Heard(r)
    BY <2>1, <2>2 DEF Heard
  <2>6. TerminalInv'
    BY <2>1, <2>2, <2>3, <2>4, <2>5, TerminalMovesKeepInv
  <2> QED
    BY <2>2, <2>6 DEF Inv
<1> QED
  BY <1>1, <1>2, DecideKeepsInv, OtherAnswersKeepsInv, ServedKeepsInv, ReceivedKeepsInv, DeliverKeepsInv,
     DropKeepsInv, ConnectKeepsInv, AttachKeepsInv, ChecksKeepInv, CheckRunKeepsInv DEF Next

(***************************************************************************)
(* Type correctness and everything above hold in every reachable state.    *)
(***************************************************************************)
THEOREM ApprovalsInvHolds == Spec => []Inv
<1>1. Init => Inv
  BY InitHasInv
<1>2. Inv /\ [Next]_vars => Inv'
  BY NextKeepsInv
<1> QED
  BY <1>1, <1>2, PTL DEF Spec

(***************************************************************************)
(* Calls run as they were granted, for any number of calls, answers,       *)
(* attempts and lost connections: nothing runs without a permission of the *)
(* policy or of a person, nothing on the host without one for the host,    *)
(* nothing after an acknowledged refusal, and what changes the workspace   *)
(* at most once.                                                           *)
(***************************************************************************)
THEOREM CallsAlwaysRunAsGranted == Spec => []CallsRunAsGranted
<1>1. Inv => CallsRunAsGranted
  BY SoundCallsRunAsGranted DEF Inv
<1> QED
  BY <1>1, ApprovalsInvHolds, PTL

(***************************************************************************)
(* Between the core and the terminal no request is orphaned: one that is   *)
(* registered has a call that takes it off the table, and one that waits   *)
(* has, once the terminal has caught up, a prompt it can be answered from. *)
(***************************************************************************)
THEOREM RequestsAlwaysLive == Spec => []RequestsAreLive
<1>1. Inv => WaitingRequestsCanBeAnswered
  <2> SUFFICES ASSUME Inv, link = "live", ~ replaying, unread = <<>>,
                      NEW q \in pending, pc[q[1]] = "waiting"
               PROVE  q \in usable \/ \E d \in Decisions : <<q, d, drops>> \in wire
    BY DEF WaitingRequestsCanBeAnswered
  <2>1. ~ Told("requested", q) /\ watched
    BY DEF Told, Inv, TerminalInv, StreamIsTyped
  <2>2. q \in shown
    BY <2>1 DEF Inv, TerminalInv, PromptsAreThere
  <2>3. q \in usable \/ Sent(q)
    BY <2>2 DEF Inv, TerminalInv, PromptsAreUsable
  <2>4. ASSUME Sent(q) PROVE \E d \in Decisions : <<q, d, drops>> \in wire
    <3>1. PICK m \in wire : m[1] = q /\ m[3] = drops
      BY <2>4 DEF Sent
    <3>2. m = <<m[1], m[2], m[3]>> /\ m[2] \in Decisions
      BY DEF Inv, TerminalInv, TypeOK
    <3> QED
      BY <3>1, <3>2
  <2> QED
    BY <2>3, <2>4
<1>2. Inv => RequestsAreLive
  BY <1>1, SoundRequestsHaveTheirCall DEF Inv, TerminalInv, RequestsAreLive
<1> QED
  BY <1>2, ApprovalsInvHolds, PTL

===============================================================================
