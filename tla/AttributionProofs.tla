------------------------- MODULE AttributionProofs -------------------------
(***************************************************************************)
(* Attribution: the context a session stamps on telemetry is the Agent's.  *)
(*                                                                         *)
(* The argument follows one command through the system.  A session that is *)
(* not fenced has nothing unaccounted for on its way to or from the Agent  *)
(* (Resting), or exactly one command whose outcome it awaits: still on its *)
(* way (Flying), refused (Refused), or applied with the ACK before any     *)
(* frame that shows the new context (Applied).  What an earlier attempt,   *)
(* session, or process left in the channels does no harm because its       *)
(* command ID is dead (no call can match an ACK to it any more), or is the *)
(* live ID and journalled, so the Agent only answers.  This needs callers  *)
(* that keep to command IDs: they may repeat a request, or overlap calls,  *)
(* but not both ("serial" and "once").  With both ("free") an ACK may      *)
(* reopen a session under a context the Agent has left, which violates     *)
(* LateAckNeverReopens.                                                    *)
(*                                                                         *)
(* An authoritative clear is followed from its reservation: one that is    *)
(* admitted to a session that is not fenced, or is still pending when its  *)
(* own ACK has lifted the fence, carries a command the Agent has applied.  *)
(***************************************************************************)
EXTENDS CallOutcomeProofs

\* Messages on one stream to the Relay, in order.
Ack(m, c) == m.kind = "ack" /\ m.id = c
AppliedAck(m, c) == Ack(m, c) /\ m.status = "applied"

NoAck(q, c) == \A i \in DOMAIN q : ~Ack(q[i], c)
AcksApplied(q, c) == \A i \in DOMAIN q : Ack(q[i], c) => q[i].status = "applied"
NoAppliedAck(q, c) == \A i \in DOMAIN q : ~AppliedAck(q[i], c)
AcksReport(q, c, f) == \A i \in DOMAIN q : AppliedAck(q[i], c) => q[i].active = f
FramesCarry(q, f) == \A i \in DOMAIN q : q[i].kind = "frame" => q[i].active = f

\* Frames behind an ACK that reports c applied carry f.
FramesFollow(q, c, f) ==
    \A i, j \in DOMAIN q :
        i < j /\ AppliedAck(q[i], c) /\ q[j].kind = "frame" => q[j].active = f

\* There is one ACK of c, and it refuses it.
OneRefusal(q, c) ==
    \E i \in DOMAIN q : /\ Ack(q[i], c) /\ q[i].status # "applied"
                        /\ \A j \in DOMAIN q : Ack(q[j], c) => j = i

\* There is an ACK of c, and the frames ahead of it carry f.
AckAhead(q, c, f) ==
    \E i \in DOMAIN q :
        /\ Ack(q[i], c)
        /\ \A j \in DOMAIN q : j < i /\ q[j].kind = "frame" => q[j].active = f

\* A message joins at the end.
LEMMA Joins ==
    ASSUME NEW q \in Seq(Upstream), NEW m \in Upstream, NEW c
    PROVE  /\ NoAck(Append(q, m), c) <=> NoAck(q, c) /\ ~Ack(m, c)
           /\ NoAppliedAck(Append(q, m), c) <=> NoAppliedAck(q, c) /\ ~AppliedAck(m, c)
           /\ AcksApplied(q, c) /\ (Ack(m, c) => m.status = "applied")
                 => AcksApplied(Append(q, m), c)
           /\ OneRefusal(q, c) /\ ~Ack(m, c) => OneRefusal(Append(q, m), c)
           /\ NoAck(q, c) /\ Ack(m, c) /\ m.status # "applied"
                 => OneRefusal(Append(q, m), c)
<1> DEFINE p == Append(q, m)
           n == Len(q)
<1>1. /\ n \in Nat /\ DOMAIN q = 1 .. n /\ DOMAIN p = 1 .. (n + 1)
      /\ p[n + 1] = m
      /\ \A i \in 1 .. n : p[i] = q[i]
  OBVIOUS
<1> HIDE DEF p, n
<1>2. \A i \in DOMAIN p : i \in DOMAIN q \/ (i = n + 1 /\ p[i] = m)
  BY <1>1
<1>3. NoAck(p, c) <=> NoAck(q, c) /\ ~Ack(m, c)
  BY <1>1 DEF NoAck
<1>4. NoAppliedAck(p, c) <=> NoAppliedAck(q, c) /\ ~AppliedAck(m, c)
  BY <1>1 DEF NoAppliedAck
<1>5. AcksApplied(q, c) /\ (Ack(m, c) => m.status = "applied") => AcksApplied(p, c)
  BY <1>1 DEF AcksApplied
<1>6. OneRefusal(q, c) /\ ~Ack(m, c) => OneRefusal(p, c)
  <2> SUFFICES ASSUME OneRefusal(q, c), ~Ack(m, c) PROVE OneRefusal(p, c)
    OBVIOUS
  <2>1. PICK i \in DOMAIN q : /\ Ack(q[i], c) /\ q[i].status # "applied"
                             /\ \A j \in DOMAIN q : Ack(q[j], c) => j = i
    BY DEF OneRefusal
  <2>2. i \in DOMAIN p /\ p[i] = q[i]
    BY <1>1
  <2>3. \A j \in DOMAIN p : Ack(p[j], c) => j = i
    BY <1>1, <1>2, <2>1
  <2> QED BY <2>1, <2>2, <2>3 DEF OneRefusal
<1>7. NoAck(q, c) /\ Ack(m, c) /\ m.status # "applied" => OneRefusal(p, c)
  BY <1>1, <1>2 DEF NoAck, OneRefusal
<1> QED BY <1>3, <1>4, <1>5, <1>6, <1>7 DEF p

\* It carries the context the Agent has by then.
LEMMA JoinsCarrying ==
    ASSUME NEW q \in Seq(Upstream), NEW m \in Upstream, NEW c, NEW f
    PROVE  /\ AcksReport(q, c, f) /\ (AppliedAck(m, c) => m.active = f)
                 => AcksReport(Append(q, m), c, f)
           /\ FramesCarry(q, f) /\ (m.kind = "frame" => m.active = f)
                 => FramesCarry(Append(q, m), f)
           /\ FramesFollow(q, c, f) /\ (m.kind = "frame" => m.active = f)
                 => FramesFollow(Append(q, m), c, f)
           /\ AckAhead(q, c, f) => AckAhead(Append(q, m), c, f)
           /\ FramesCarry(q, f) /\ Ack(m, c) => AckAhead(Append(q, m), c, f)
<1> DEFINE p == Append(q, m)
           n == Len(q)
<1>1. /\ n \in Nat /\ DOMAIN q = 1 .. n /\ DOMAIN p = 1 .. (n + 1)
      /\ p[n + 1] = m
      /\ \A i \in 1 .. n : p[i] = q[i]
  OBVIOUS
<1> HIDE DEF p, n
<1>2. AcksReport(q, c, f) /\ (AppliedAck(m, c) => m.active = f) => AcksReport(p, c, f)
  BY <1>1 DEF AcksReport
<1>3. FramesCarry(q, f) /\ (m.kind = "frame" => m.active = f) => FramesCarry(p, f)
  BY <1>1 DEF FramesCarry
<1>4. FramesFollow(q, c, f) /\ (m.kind = "frame" => m.active = f) => FramesFollow(p, c, f)
  <2> SUFFICES ASSUME FramesFollow(q, c, f), m.kind = "frame" => m.active = f,
                      NEW i \in DOMAIN p, NEW j \in DOMAIN p,
                      i < j, AppliedAck(p[i], c), p[j].kind = "frame"
               PROVE p[j].active = f
    BY DEF FramesFollow
  <2>1. CASE j = n + 1
    BY <1>1, <2>1
  <2>2. CASE j # n + 1
    <3>1. i \in DOMAIN q /\ j \in DOMAIN q /\ p[i] = q[i] /\ p[j] = q[j]
      BY <1>1, <2>2
    <3> QED BY <3>1 DEF FramesFollow
  <2> QED BY <2>1, <2>2
<1>5. AckAhead(q, c, f) => AckAhead(p, c, f)
  <2> SUFFICES ASSUME AckAhead(q, c, f) PROVE AckAhead(p, c, f)
    OBVIOUS
  <2>1. PICK i \in DOMAIN q :
           /\ Ack(q[i], c)
           /\ \A j \in DOMAIN q : j < i /\ q[j].kind = "frame" => q[j].active = f
    BY DEF AckAhead
  <2>2. i \in DOMAIN p /\ p[i] = q[i]
    BY <1>1
  <2>3. \A j \in DOMAIN p : j < i => j \in DOMAIN q /\ p[j] = q[j]
    BY <1>1
  <2> QED BY <2>1, <2>2, <2>3 DEF AckAhead
<1>6. FramesCarry(q, f) /\ Ack(m, c) => AckAhead(p, c, f)
  <2>1. n + 1 \in DOMAIN p /\ \A j \in DOMAIN p : j < n + 1 => j \in DOMAIN q /\ p[j] = q[j]
    BY <1>1
  <2> QED BY <1>1, <2>1 DEF FramesCarry, AckAhead
<1> QED BY <1>2, <1>3, <1>4, <1>5, <1>6 DEF p

\* The first message leaves.
LEMMA Leaves ==
    ASSUME NEW q \in Seq(Upstream), q # <<>>, NEW c
    PROVE  /\ NoAck(q, c) => NoAck(Tail(q), c) /\ ~Ack(Head(q), c)
           /\ NoAppliedAck(q, c) => NoAppliedAck(Tail(q), c) /\ ~AppliedAck(Head(q), c)
           /\ AcksApplied(q, c) => /\ AcksApplied(Tail(q), c)
                                   /\ Ack(Head(q), c) => Head(q).status = "applied"
           /\ OneRefusal(q, c) /\ Ack(Head(q), c)
                 => Head(q).status # "applied" /\ NoAck(Tail(q), c)
           /\ OneRefusal(q, c) /\ ~Ack(Head(q), c) => OneRefusal(Tail(q), c)
<1> DEFINE p == Tail(q)
           h == Head(q)
           n == Len(q)
<1>1. /\ n \in Nat /\ n > 0 /\ DOMAIN q = 1 .. n /\ DOMAIN p = 1 .. (n - 1)
      /\ q[1] = h
      /\ \A i \in 1 .. (n - 1) : p[i] = q[i + 1]
  OBVIOUS
<1> HIDE DEF p, h, n
<1>2. /\ 1 \in DOMAIN q
      /\ \A i \in DOMAIN p : i + 1 \in DOMAIN q /\ p[i] = q[i + 1]
  BY <1>1
<1>3. NoAck(q, c) => NoAck(p, c) /\ ~Ack(h, c)
  BY <1>1, <1>2 DEF NoAck
<1>4. NoAppliedAck(q, c) => NoAppliedAck(p, c) /\ ~AppliedAck(h, c)
  BY <1>1, <1>2 DEF NoAppliedAck
<1>5. AcksApplied(q, c) => AcksApplied(p, c) /\ (Ack(h, c) => h.status = "applied")
  BY <1>1, <1>2 DEF AcksApplied
<1>6. ASSUME OneRefusal(q, c), Ack(h, c) PROVE h.status # "applied" /\ NoAck(p, c)
  <2>1. PICK i \in DOMAIN q : /\ Ack(q[i], c) /\ q[i].status # "applied"
                             /\ \A j \in DOMAIN q : Ack(q[j], c) => j = i
    BY <1>6 DEF OneRefusal
  <2>2. i = 1
    BY <1>1, <1>2, <1>6, <2>1
  <2>3. \A j \in DOMAIN p : j + 1 # 1
    BY <1>1
  <2> QED BY <1>1, <1>2, <2>1, <2>2, <2>3 DEF NoAck
<1>7. ASSUME OneRefusal(q, c), ~Ack(h, c) PROVE OneRefusal(p, c)
  <2>1. PICK i \in DOMAIN q : /\ Ack(q[i], c) /\ q[i].status # "applied"
                             /\ \A j \in DOMAIN q : Ack(q[j], c) => j = i
    BY <1>7 DEF OneRefusal
  <2>2. i - 1 \in DOMAIN p /\ p[i - 1] = q[i]
    BY <1>1, <1>7, <2>1
  <2>3. \A j \in DOMAIN p : Ack(p[j], c) => j = i - 1
    BY <1>1, <1>2, <2>1
  <2> QED BY <2>1, <2>2, <2>3 DEF OneRefusal
<1> QED BY <1>3, <1>4, <1>5, <1>6, <1>7 DEF p, h

\* What it carried.
LEMMA LeavesCarrying ==
    ASSUME NEW q \in Seq(Upstream), q # <<>>, NEW c, NEW f
    PROVE  /\ AcksReport(q, c, f) => /\ AcksReport(Tail(q), c, f)
                                     /\ AppliedAck(Head(q), c) => Head(q).active = f
           /\ FramesCarry(q, f) => /\ FramesCarry(Tail(q), f)
                                   /\ Head(q).kind = "frame" => Head(q).active = f
           /\ FramesFollow(q, c, f) => /\ FramesFollow(Tail(q), c, f)
                                       /\ AppliedAck(Head(q), c) => FramesCarry(Tail(q), f)
           /\ AckAhead(q, c, f) /\ ~Ack(Head(q), c) =>
                 /\ AckAhead(Tail(q), c, f)
                 /\ Head(q).kind = "frame" => Head(q).active = f
<1> DEFINE p == Tail(q)
           h == Head(q)
           n == Len(q)
<1>1. /\ n \in Nat /\ n > 0 /\ DOMAIN q = 1 .. n /\ DOMAIN p = 1 .. (n - 1)
      /\ q[1] = h
      /\ \A i \in 1 .. (n - 1) : p[i] = q[i + 1]
  OBVIOUS
<1> HIDE DEF p, h, n
<1>2. /\ 1 \in DOMAIN q
      /\ \A i \in DOMAIN p : i + 1 \in DOMAIN q /\ p[i] = q[i + 1]
  BY <1>1
<1>3. AcksReport(q, c, f) => AcksReport(p, c, f) /\ (AppliedAck(h, c) => h.active = f)
  BY <1>1, <1>2 DEF AcksReport
<1>4. FramesCarry(q, f) => FramesCarry(p, f) /\ (h.kind = "frame" => h.active = f)
  BY <1>1, <1>2 DEF FramesCarry
<1>5. FramesFollow(q, c, f) =>
         FramesFollow(p, c, f) /\ (AppliedAck(h, c) => FramesCarry(p, f))
  <2> SUFFICES ASSUME FramesFollow(q, c, f)
               PROVE FramesFollow(p, c, f) /\ (AppliedAck(h, c) => FramesCarry(p, f))
    OBVIOUS
  <2>1. \A i, j \in DOMAIN p : i < j => i + 1 < j + 1
    BY <1>1
  <2>2. \A j \in DOMAIN p : 1 < j + 1
    BY <1>1
  <2>3. FramesFollow(p, c, f)
    BY <1>2, <2>1 DEF FramesFollow
  <2>4. AppliedAck(h, c) => FramesCarry(p, f)
    BY <1>1, <1>2, <2>2 DEF FramesFollow, FramesCarry
  <2> QED BY <2>3, <2>4
<1>6. ASSUME AckAhead(q, c, f), ~Ack(h, c)
       PROVE AckAhead(p, c, f) /\ (h.kind = "frame" => h.active = f)
  <2>1. PICK i \in DOMAIN q :
           /\ Ack(q[i], c)
           /\ \A j \in DOMAIN q : j < i /\ q[j].kind = "frame" => q[j].active = f
    BY <1>6 DEF AckAhead
  <2>2. i - 1 \in DOMAIN p /\ p[i - 1] = q[i] /\ 1 < i
    BY <1>1, <1>6, <2>1
  <2>3. \A j \in DOMAIN p : j < i - 1 => j + 1 < i
    BY <1>1
  <2>4. AckAhead(p, c, f)
    BY <1>2, <2>1, <2>2, <2>3 DEF AckAhead
  <2> QED BY <1>1, <1>2, <2>1, <2>2, <2>4
<1> QED BY <1>3, <1>4, <1>5, <1>6 DEF p, h

----------------------------------------------------------------------------
(* Live command IDs.                                                       *)

\* Control is on and callers keep to command IDs.
Disciplined == Control /\ Api # "free"

\* The call may still have its command written or acknowledged.
Engaged(r) ==
    \/ rpc[r].pc \in {"gate", "admit", "send"}
    \/ rpc[r].pc \in {"sent", "await"} /\ StateOf(r).phase = "pending"

\* An ACK of c may still find a command to complete.
Live(c) ==
    IF Api = "serial" THEN \A d \in issued : d <= c
    ELSE c \in issued => \E r \in Rpc : Engaged(r) /\ IdOf(r) = c

\* The Agent, or a channel, knows of c.
Touched(c) ==
    \/ journal[c] # None
    \/ \E i \in DOMAIN toAgent : toAgent[i].id = c
    \/ \E b \in Stream : ~NoAck(toRelay[b], c)

\* Only issued IDs travel.  Calls in progress use the latest ID ("serial"), or
\* IDs of their own, which nobody knows of before the write ("once").
CommandIds ==
    /\ \A c \in Command : Touched(c) => c \in issued
    /\ Api = "serial" => \A r \in Rpc : Active(r) => \A d \in issued : d <= IdOf(r)
    /\ Api = "once" =>
          /\ \A r, p \in Rpc : Active(r) /\ Active(p) /\ IdOf(r) = IdOf(p) => r = p
          /\ \A r \in Rpc : Active(r) /\ Touched(IdOf(r)) => rpc[r].pc \in {"sent", "await"}

\* A call past admission that may still be answered uses a live ID.
LEMMA EngagedLive ==
    ASSUME Disciplined, CallStates, CommandIds, NEW r \in Rpc, Engaged(r)
    PROVE  Live(IdOf(r))
<1>1. Active(r)
  BY DEF Engaged, Active
<1> QED BY <1>1 DEF Live, CommandIds

\* A dead ID stays dead.
LEMMA LiveShrinks ==
    ASSUME Disciplined, ControlInductive, ControlTypes, [Next]_vars,
           NEW c \in Command, Live(c)'
    PROVE  Live(c)
<1>1. CASE Api = "serial"
  BY <1>1, IssuedGrows DEF Live
<1>2. CASE Api # "serial"
  <2> SUFFICES ASSUME c \in issued PROVE \E r \in Rpc : Engaged(r) /\ IdOf(r) = c
    BY <1>2 DEF Live
  <2>1. PICK r \in Rpc : Engaged(r)' /\ IdOf(r)' = c
    BY <1>2, IssuedGrows DEF Live
  <2>2. rpc'[r].pc # "idle" /\ rpc \in [Rpc -> RpcState] /\ Calls
    BY <2>1 DEF Engaged, ControlInductive, Calls
  <2>3. ~Crash
    BY <2>2 DEF Crash, IdleRpc
  <2>4. CASE rpc'[r] = rpc[r]
    <3>1. IdOf(r) = c
      BY <2>1, <2>4 DEF IdOf
    <3>2. rpc[r].pc \in {"sent", "await"} /\ StateOf(r)'.phase = "pending" =>
             StateOf(r).phase = "pending"
      BY <2>3, <2>4, StateKept
    <3> QED BY <2>1, <2>4, <3>1, <3>2 DEF Engaged
  <2>5. ASSUME NEW q \in Request, Call(r, q), rpc'[r] # rpc[r] PROVE FALSE
    <3>1. rpc'[r].request = q
      BY <2>2, <2>5 DEF Call
    <3>2. q.id \notin issued
      BY <1>2, <2>5, ConfigAssumption DEF Call, MayIssue, Disciplined
    <3> QED BY <2>1, <3>1, <3>2 DEF IdOf
  <2>6. CASE AcquireGate(r)
    BY <2>1, <2>2, <2>6 DEF AcquireGate, IdOf, IdleRpc, RpcState, Engaged
  <2>7. CASE Admit(r)
    <3>1. rpc[r].pc = "admit"
      BY <2>7 DEF Admit
    <3>2. rpc'[r] # IdleRpc
      BY <2>2 DEF IdleRpc
    <3>3. \/ rpc' = [rpc EXCEPT ![r].pc = "await"]
          \/ rpc' = [rpc EXCEPT ![r].pc = "send", ![r].owner = TRUE]
      BY <2>7, <3>2, AdmitOutcome
    <3>4. rpc'[r].request = rpc[r].request
      BY <2>2, <3>3 DEF RpcState
    <3> QED BY <2>1, <3>1, <3>4 DEF IdOf, Engaged
  <2>8. CASE FailUnsent(r) \/ WriteCommand(r)
    BY <2>1, <2>2, <2>8, FailOutcome, WriteOutcome DEF IdOf, RpcState, Engaged
  <2>9. ASSUME NEW failed \in BOOLEAN, WriteReturns(r, failed)
        PROVE Engaged(r) /\ IdOf(r) = c
    BY <2>1, <2>2, <2>9, ReturnOutcome DEF IdOf, RpcState, Engaged
  <2>10. ~(GiveUp(r) \/ Return(r))
    BY <2>2 DEF GiveUp, Return, Finish, IdleRpc
  <2> QED BY <2>2, <2>3, <2>4, <2>5, <2>6, <2>7, <2>8, <2>9, <2>10, CallMoves
<1> QED BY <1>1, <1>2

\* The only live ID anybody knows of is that of the call past admission.
LEMMA OneLive ==
    ASSUME Disciplined, OutcomeInductive, CommandIds,
           NEW r \in Rpc, rpc[r].pc \in {"send", "sent", "await"},
           OwnsAgent(rpc[r].session),
           NEW c \in Command, Live(c), Touched(c)
    PROVE  c = IdOf(r)
<1> USE DEF OutcomeInductive, ControlInductive
<1>1. Active(r) /\ IdOf(r) \in issued /\ c \in issued /\ IdOf(r) \in Nat /\ c \in Nat
  <2>1. Active(r) /\ IdOf(r) \in issued /\ c \in issued
    BY DEF Active, CallStates, CommandIds
  <2>2. Command \subseteq Nat
    BY RequestAssumption DEF Command
  <2> QED BY <2>1, <2>2 DEF ControlTypes
<1>2. CASE Api = "serial"
  <2>1. c <= IdOf(r) /\ IdOf(r) <= c
    BY <1>1, <1>2 DEF Live, CommandIds
  <2> QED BY <1>1, <2>1
<1>3. CASE Api # "serial"
  <2>1. PICK p \in Rpc : Engaged(p) /\ IdOf(p) = c
    BY <1>1, <1>3 DEF Live
  <2>2. Api = "once"
    BY <1>3, ConfigAssumption DEF Disciplined
  <2>3. rpc[p].pc \in {"sent", "await"} /\ StateOf(p).phase = "pending"
    BY <2>1, <2>2 DEF CommandIds, Engaged, Active
  <2>4. rpc[p].session \in Session /\ c \in PendingCommands(rpc[p].session)
    BY <2>1, <2>3 DEF Calls, StateOf, IdOf, PendingCommands
  <2>5. rpc[p].session = rpc[r].session
    BY <2>4 DEF PendingOnLiveBinding, OwnsAgent
  <2>6. p \in GateHolders(rpc[p].session) /\ r \in GateHolders(rpc[p].session)
    BY <2>3, <2>5 DEF GateHolders
  <2> QED BY <2>1, <2>4, <2>6 DEF GateExcludes
<1> QED BY <1>2, <1>3

----------------------------------------------------------------------------
(* The steps of the Agent and of the channels.                             *)

\* Only the Agent, a new stream and a write change what the Agent has.
LEMMA AgentStep ==
    ASSUME [Next]_vars
    PROVE  \/ UNCHANGED <<agentContext, journal, agentStream, toAgent>>
           \/ \E b \in Stream, s \in Session : ConnectStream(b, s)
           \/ \E r \in Rpc : WriteCommand(r)
           \/ AgentApplies \/ AgentAnswersOnly
<1>1. ASSUME NEW s \in Session,
             BeginRegister(s) \/ AbandonRegister(s) \/ RestartRegister(s) \/ Register(s)
      PROVE UNCHANGED <<agentContext, journal, agentStream, toAgent>>
  BY <1>1 DEF BeginRegister, AbandonRegister, RestartRegister, Register, agentVars
<1>2. ASSUME NEW b \in Stream, StreamStep(b)
      PROVE UNCHANGED <<agentContext, journal, agentStream, toAgent>>
  BY <1>2 DEF StreamStep, UpdateStream, Publication, SwapStream, EndStream, CleanUp,
              ReceiveAck, DeclineFrame, AdmitFrame, RouteFrame, agentVars
<1>3. ASSUME NEW r \in Rpc, GiveUp(r) \/ RpcStep(r) \/ Deadline(r), ~WriteCommand(r)
      PROVE UNCHANGED <<agentContext, journal, agentStream, toAgent>>
  BY <1>3 DEF GiveUp, RpcStep, AcquireGate, Admit, FailUnsent, WriteReturns, Return,
              Deadline, agentVars
<1>4. ASSUME NEW r \in Rpc, NEW q \in Request, Call(r, q)
      PROVE UNCHANGED <<agentContext, journal, agentStream, toAgent>>
  BY <1>4 DEF Call, agentVars
<1>5. ASSUME ForgetSnapshot \/ Crash \/ AgentSendsFrame \/ UNCHANGED vars
      PROVE UNCHANGED <<agentContext, journal, agentStream, toAgent>>
  BY <1>5 DEF ForgetSnapshot, Crash, AgentSendsFrame, vars, agentVars
<1> QED BY <1>1, <1>2, <1>3, <1>4, <1>5 DEF Next

\* What the Agent answers reaches the end of its stream, unless that is gone.
Arrives(m) ==
    \A b \in Stream : toRelay'[b] = IF b = agentStream /\ ~Gone(b)
                                  THEN Append(toRelay[b], m) ELSE toRelay[b]

\* One stream, when an answer arrives.
LEMMA ArrivesIn ==
    ASSUME AgentTypes, NEW m \in Upstream, Arrives(m), NEW b \in Stream
    PROVE  /\ toRelay[b] \in Seq(Upstream)
           /\ b # agentStream => toRelay'[b] = toRelay[b]
           /\ \/ toRelay'[b] = toRelay[b]
              \/ b = agentStream /\ ~Gone(b) /\ toRelay'[b] = Append(toRelay[b], m)
           /\ \A c : NoAck(toRelay[b], c) /\ ~Ack(m, c) => NoAck(toRelay'[b], c)
<1>1. /\ toRelay[b] \in Seq(Upstream)
      /\ b # agentStream => toRelay'[b] = toRelay[b]
      /\ \/ toRelay'[b] = toRelay[b]
         \/ b = agentStream /\ ~Gone(b) /\ toRelay'[b] = Append(toRelay[b], m)
  BY DEF Arrives, AgentTypes
<1>2. \A c : NoAck(Append(toRelay[b], m), c) <=> NoAck(toRelay[b], c) /\ ~Ack(m, c)
  BY <1>1, Joins
<1> QED BY <1>1, <1>2

\* What an arrival leaves as it was.
LEMMA ArrivalKeeps ==
    ASSUME AgentTypes, NEW m \in Upstream, Arrives(m), NEW b \in Stream, NEW c, NEW f
    PROVE  /\ NoAppliedAck(toRelay[b], c) /\ ~AppliedAck(m, c) => NoAppliedAck(toRelay'[b], c)
           /\ AcksApplied(toRelay[b], c) /\ ~Ack(m, c) => AcksApplied(toRelay'[b], c)
           /\ OneRefusal(toRelay[b], c) /\ ~Ack(m, c) => OneRefusal(toRelay'[b], c)
           /\ AcksReport(toRelay[b], c, f) /\ (AppliedAck(m, c) => m.active = f)
                 => AcksReport(toRelay'[b], c, f)
           /\ FramesCarry(toRelay[b], f) /\ (m.kind = "frame" => m.active = f)
                 => FramesCarry(toRelay'[b], f)
           /\ FramesFollow(toRelay[b], c, f) /\ (m.kind = "frame" => m.active = f)
                 => FramesFollow(toRelay'[b], c, f)
           /\ AckAhead(toRelay[b], c, f) => AckAhead(toRelay'[b], c, f)
<1>1. CASE toRelay'[b] = toRelay[b]
  BY <1>1
<1>2. CASE toRelay'[b] = Append(toRelay[b], m)
  <2>1. toRelay[b] \in Seq(Upstream)
    BY ArrivesIn
  <2>2. /\ NoAppliedAck(Append(toRelay[b], m), c) <=>
              NoAppliedAck(toRelay[b], c) /\ ~AppliedAck(m, c)
        /\ AcksApplied(toRelay[b], c) /\ ~Ack(m, c) => AcksApplied(Append(toRelay[b], m), c)
        /\ OneRefusal(toRelay[b], c) /\ ~Ack(m, c) => OneRefusal(Append(toRelay[b], m), c)
    BY <2>1, Joins
  <2>3. /\ AcksReport(toRelay[b], c, f) /\ (AppliedAck(m, c) => m.active = f)
              => AcksReport(Append(toRelay[b], m), c, f)
        /\ FramesCarry(toRelay[b], f) /\ (m.kind = "frame" => m.active = f)
              => FramesCarry(Append(toRelay[b], m), f)
        /\ FramesFollow(toRelay[b], c, f) /\ (m.kind = "frame" => m.active = f)
              => FramesFollow(Append(toRelay[b], m), c, f)
        /\ AckAhead(toRelay[b], c, f) => AckAhead(Append(toRelay[b], m), c, f)
    BY <2>1, JoinsCarrying
  <2> QED BY <1>2, <2>2, <2>3
<1> QED BY <1>1, <1>2, ArrivesIn

\* The Agent applies the first command on its stream.
LEMMA AppliesEffect ==
    ASSUME AgentTypes, AgentApplies
    PROVE  \E q \in Request, m \in Upstream :
              /\ q = Head(toAgent) /\ toAgent # <<>> /\ toAgent' = Tail(toAgent)
              /\ agentStream \in Stream /\ agentStream' = agentStream
              /\ journal[q.id] = None /\ journal' = [journal EXCEPT ![q.id] = q]
              /\ m.kind = "ack" /\ m.id = q.id /\ m.status = "applied"
              /\ m.active = agentContext'
              /\ Arrives(m)
<1>1. Head(toAgent) \in Request /\ agentStream \in Stream
  BY DEF AgentApplies, AgentHas, AgentTypes
<1>2. Effect(Head(toAgent)) \in Context
  BY <1>1, EffectTyped DEF AgentTypes
<1>3. AckMessage(Head(toAgent), "applied", Effect(Head(toAgent))) \in Upstream
  BY <1>1, <1>2, MessagesTyped
<1>4. Arrives(AckMessage(Head(toAgent), "applied", Effect(Head(toAgent))))
  BY <1>1 DEF AgentApplies, Answer, Arrives, AgentTypes
<1> QED BY <1>1, <1>3, <1>4 DEF AgentApplies, AgentHas, AckMessage

\* The Agent answers the first command on its stream without effect.
LEMMA AnswersEffect ==
    ASSUME AgentTypes, AgentAnswersOnly
    PROVE  \E q \in Request, m \in Upstream :
              /\ q = Head(toAgent) /\ toAgent # <<>> /\ toAgent' = Tail(toAgent)
              /\ agentStream \in Stream
              /\ UNCHANGED <<agentStream, agentContext, journal>>
              /\ m.kind = "ack" /\ m.id = q.id /\ m.active = agentContext
              /\ m.status = "applied" => journal[q.id] # None
              /\ Arrives(m)
<1>1. Head(toAgent) \in Request /\ agentStream \in Stream
  BY DEF AgentAnswersOnly, AgentHas, AgentTypes
<1>2. PICK status \in {"applied", "temporary", "rejected"} :
        /\ Answer(AckMessage(Head(toAgent), status, agentContext))
        /\ status = "applied" => journal[Head(toAgent).id] # None
  BY DEF AgentAnswersOnly
<1>3. AckMessage(Head(toAgent), status, agentContext) \in Upstream
  BY <1>1, MessagesTyped DEF AgentTypes
<1>4. Arrives(AckMessage(Head(toAgent), status, agentContext))
  BY <1>1, <1>2 DEF Answer, Arrives, AgentTypes
<1> QED BY <1>1, <1>2, <1>3, <1>4 DEF AgentAnswersOnly, AgentHas, AckMessage

\* The Agent sends a frame with its context.
LEMMA FrameEffect ==
    ASSUME AgentTypes, AgentSendsFrame
    PROVE  \E m \in Upstream :
              /\ agentStream \in Stream
              /\ UNCHANGED <<agentStream, agentContext, journal, toAgent>>
              /\ m.kind = "frame" /\ m.active = agentContext
              /\ Arrives(m)
<1>1. agentStream \in Stream
  BY DEF AgentSendsFrame, AgentTypes
<1>2. FrameMessage(agentContext) \in Upstream
  BY MessagesTyped DEF AgentTypes
<1>3. Arrives(FrameMessage(agentContext))
  BY <1>1 DEF AgentSendsFrame, Answer, Arrives, AgentTypes
<1> QED BY <1>1, <1>2, <1>3 DEF AgentSendsFrame, FrameMessage

\* Every other step leaves a stream alone, takes its first message, or drops
\* them all with its handler or the process.
LEMMA RelayStep ==
    ASSUME ControlInductive, AgentTypes, FrameHeld, [Next]_vars, NEW b \in Stream
    PROVE  \/ AgentApplies \/ AgentAnswersOnly \/ AgentSendsFrame
           \/ toRelay'[b] = toRelay[b]
           \/ /\ handler[b] \in {"serving", "routing"}
              /\ toRelay[b] # <<>> /\ toRelay'[b] = Tail(toRelay[b])
              /\ ReceiveAck(b) \/ (DeclineFrame(b) /\ Head(toRelay[b]).kind = "frame")
                 \/ (RouteFrame(b) /\ Head(toRelay[b]).kind = "frame")
           \/ /\ toRelay'[b] = <<>>
              /\ CleanUp(b) \/ Crash
<1>1. CASE Crash
  BY <1>1 DEF Crash
<1>2. CASE ReceiveAck(b)
  BY <1>2 DEF ReceiveAck, Consume, AgentTypes
<1>3. CASE DeclineFrame(b)
  BY <1>3 DEF DeclineFrame, Consume, Received, AgentTypes
<1>4. CASE RouteFrame(b)
  BY <1>4 DEF RouteFrame, EndFrame, Consume, FrameHeld, AgentTypes
<1>5. CASE CleanUp(b)
  BY <1>5 DEF CleanUp, AgentTypes
<1> QED BY <1>1, <1>2, <1>3, <1>4, <1>5, ChannelStep

\* The commands on their way to the Agent, when the first is taken.
LEMMA TakesFirst ==
    ASSUME NEW q \in Seq(Request), q # <<>>
    PROVE  /\ 1 \in DOMAIN q /\ Head(q) = q[1]
           /\ \A i \in DOMAIN Tail(q) : i + 1 \in DOMAIN q /\ Tail(q)[i] = q[i + 1]
           /\ \A i \in DOMAIN q : i # 1 => i - 1 \in DOMAIN Tail(q)
           /\ DOMAIN q \subseteq Nat /\ DOMAIN Tail(q) \subseteq Nat
           /\ Len(Tail(q)) = Len(q) - 1 /\ Len(q) \in DOMAIN q
           /\ DOMAIN q = 1 .. Len(q)
           /\ Tail(q) # <<>> => Tail(q)[Len(Tail(q))] = q[Len(q)]
           /\ Tail(q) = <<>> <=> Len(q) = 1
<1>1. /\ Len(q) \in Nat /\ Len(q) > 0 /\ DOMAIN q = 1 .. Len(q)
      /\ DOMAIN Tail(q) = 1 .. (Len(q) - 1)
      /\ \A i \in 1 .. (Len(q) - 1) : Tail(q)[i] = q[i + 1]
      /\ Len(Tail(q)) = Len(q) - 1 /\ Head(q) = q[1] /\ Tail(q) \in Seq(Request)
  OBVIOUS
<1>2. Tail(q) = <<>> <=> Len(q) = 1
  BY <1>1
<1>3. Tail(q) # <<>> => Len(q) - 1 \in 1 .. (Len(q) - 1)
  BY <1>1, <1>2
<1> QED BY <1>1, <1>2, <1>3

\* And when one is written.
LEMMA AddsLast ==
    ASSUME NEW q \in Seq(Request), NEW m \in Request
    PROVE  /\ \A i \in DOMAIN Append(q, m) :
                 \/ i \in DOMAIN q /\ Append(q, m)[i] = q[i] /\ i < Len(Append(q, m))
                 \/ i = Len(q) + 1 /\ Append(q, m)[i] = m
           /\ Append(q, m) # <<>>
           /\ Len(Append(q, m)) = Len(q) + 1 /\ Append(q, m)[Len(q) + 1] = m
           /\ DOMAIN q = 1 .. Len(q) /\ Len(q) \in Nat
           /\ DOMAIN Append(q, m) = 1 .. (Len(q) + 1)
  OBVIOUS

\* A write adds the call's command to the end of what is on its way, or not.
LEMMA WriteEffect ==
    ASSUME ControlInductive, AgentTypes, NEW r \in Rpc, WriteCommand(r)
    PROVE  /\ rpc[r].request \in Request
           /\ UNCHANGED <<agentContext, journal, agentStream, toRelay>>
           /\ UNCHANGED <<context, unreconciled, reconnect, issued>>
           /\ UNCHANGED lifecycleVars
           /\ \/ UNCHANGED toAgent
              \/ /\ toAgent' = Append(toAgent, rpc[r].request)
                 /\ stream[rpc[r].session] = agentStream /\ agentStream # None
  BY DEF WriteCommand, ControlInductive, Calls

\* Only a write makes an ID known.
LEMMA TouchedStep ==
    ASSUME ControlInductive, AgentTypes, FrameHeld, [Next]_vars,
           NEW c \in Command, Touched(c)'
    PROVE  Touched(c) \/ \E r \in Rpc : WriteCommand(r) /\ IdOf(r) = c
<1> USE DEF AgentTypes
<1>1. CASE AgentApplies
  <2>1. PICK q \in Request, m \in Upstream :
              /\ q = Head(toAgent) /\ toAgent # <<>> /\ toAgent' = Tail(toAgent)
              /\ journal' = [journal EXCEPT ![q.id] = q]
              /\ m.id = q.id /\ Arrives(m)
    BY <1>1, AppliesEffect
  <2>2. Touched(q.id)
    BY <2>1, TakesFirst DEF Touched
  <2>3. journal'[c] # None => journal[c] # None \/ c = q.id
    BY <2>1
  <2>4. \A i \in DOMAIN toAgent' : \E j \in DOMAIN toAgent : toAgent'[i] = toAgent[j]
    BY <2>1, TakesFirst
  <2>5. ASSUME NEW b \in Stream, ~NoAck(toRelay'[b], c)
        PROVE ~NoAck(toRelay[b], c) \/ c = q.id
    BY <2>1, <2>5, ArrivesIn DEF Ack
  <2> QED BY <2>2, <2>3, <2>4, <2>5 DEF Touched
<1>2. CASE AgentAnswersOnly
  <2>1. PICK q \in Request, m \in Upstream :
              /\ q = Head(toAgent) /\ toAgent # <<>> /\ toAgent' = Tail(toAgent)
              /\ UNCHANGED journal
              /\ m.id = q.id /\ Arrives(m)
    BY <1>2, AnswersEffect
  <2>2. Touched(q.id)
    BY <2>1, TakesFirst DEF Touched
  <2>3. \A i \in DOMAIN toAgent' : \E j \in DOMAIN toAgent : toAgent'[i] = toAgent[j]
    BY <2>1, TakesFirst
  <2>4. ASSUME NEW b \in Stream, ~NoAck(toRelay'[b], c)
        PROVE ~NoAck(toRelay[b], c) \/ c = q.id
    BY <2>1, <2>4, ArrivesIn DEF Ack
  <2> QED BY <2>1, <2>2, <2>3, <2>4 DEF Touched
<1>3. CASE AgentSendsFrame
  <2>1. PICK m \in Upstream :
           UNCHANGED <<journal, toAgent>> /\ m.kind = "frame" /\ Arrives(m)
    BY <1>3, FrameEffect
  <2>2. ASSUME NEW b \in Stream, ~NoAck(toRelay'[b], c) PROVE ~NoAck(toRelay[b], c)
    BY <2>1, <2>2, ArrivesIn DEF Ack
  <2> QED BY <2>1, <2>2 DEF Touched
<1>4. CASE ~AgentApplies /\ ~AgentAnswersOnly /\ ~AgentSendsFrame
  <2>1. ASSUME NEW b \in Stream, ~NoAck(toRelay'[b], c) PROVE ~NoAck(toRelay[b], c)
    <3>1. NoAck(<<>>, c)
      BY DEF NoAck
    <3> QED BY <1>4, <2>1, <3>1, RelayStep, Leaves
  <2>2. UNCHANGED journal
    BY <1>4, AgentStep, WriteEffect DEF ConnectStream
  <2>3. ASSUME NEW i \in DOMAIN toAgent', toAgent'[i].id = c
        PROVE (\E j \in DOMAIN toAgent : toAgent[j].id = c)
              \/ \E r \in Rpc : WriteCommand(r) /\ IdOf(r) = c
    <3>1. ASSUME NEW r \in Rpc, WriteCommand(r)
          PROVE (\E j \in DOMAIN toAgent : toAgent[j].id = c) \/ IdOf(r) = c
      <4>1. CASE UNCHANGED toAgent
        BY <2>3, <4>1
      <4>2. CASE toAgent' = Append(toAgent, rpc[r].request)
        <5>1. rpc[r].request \in Request
          BY <3>1, WriteEffect
        <5>2. \/ i \in DOMAIN toAgent /\ toAgent'[i] = toAgent[i]
              \/ toAgent'[i] = rpc[r].request
          BY <2>3, <4>2, <5>1, AddsLast
        <5> QED BY <2>3, <5>2 DEF IdOf
      <4> QED BY <3>1, <4>1, <4>2, WriteEffect
    <3>2. ASSUME NEW b \in Stream, NEW s \in Session, ConnectStream(b, s) PROVE FALSE
      BY <2>3, <3>2 DEF ConnectStream
    <3> QED BY <1>4, <2>3, <3>1, <3>2, AgentStep
  <2> QED BY <2>1, <2>2, <2>3 DEF Touched
<1> QED BY <1>1, <1>2, <1>3, <1>4

\* A call goes on with its session and request, and never back.
LEMMA CallProgress ==
    ASSUME ControlInductive, ControlTypes, [Next]_vars, NEW r \in Rpc, Active(r)',
           \A q \in Request : ~Call(r, q)
    PROVE  /\ Active(r)
           /\ rpc'[r].session = rpc[r].session /\ rpc'[r].request = rpc[r].request
           /\ rpc[r].owner => rpc'[r].owner
           /\ \/ rpc'[r] = rpc[r]
              \/ AcquireGate(r) /\ rpc[r].pc = "gate" /\ rpc'[r].pc = "admit"
              \/ Admit(r) /\ rpc[r].pc = "admit" /\ rpc'[r].pc \in {"send", "await"}
              \/ FailUnsent(r) /\ rpc[r].pc = "send" /\ rpc'[r].pc = "await"
              \/ WriteCommand(r) /\ rpc[r].pc = "send" /\ rpc'[r].pc = "sent"
              \/ /\ \E failed \in BOOLEAN : WriteReturns(r, failed)
                 /\ rpc[r].pc = "sent" /\ rpc'[r].pc = "await"
<1>1. /\ rpc \in [Rpc -> RpcState] /\ rpc'[r].pc # "idle" /\ rpc'[r] # IdleRpc
      /\ Calls
  BY DEF ControlInductive, Calls, Active, IdleRpc
<1>2. ~Crash
  BY <1>1 DEF Crash
<1>3. CASE rpc'[r] = rpc[r]
  BY <1>1, <1>3 DEF Active
<1>4. ASSUME NEW failed \in BOOLEAN, WriteReturns(r, failed)
      PROVE rpc[r].pc = "sent" /\ rpc' = [rpc EXCEPT ![r].pc = "await"]
  BY <1>4, ReturnOutcome
<1>5. CASE Admit(r)
  <2>1. /\ rpc[r].pc = "admit"
        /\ \/ rpc' = [rpc EXCEPT ![r].pc = "await"]
           \/ rpc' = [rpc EXCEPT ![r].pc = "send", ![r].owner = TRUE]
    BY <1>1, <1>5, AdmitOutcome DEF Admit
  <2>2. CASE rpc' = [rpc EXCEPT ![r].pc = "await"]
    BY <1>1, <1>5, <2>1, <2>2 DEF RpcState, Active
  <2>3. CASE rpc' = [rpc EXCEPT ![r].pc = "send", ![r].owner = TRUE]
    BY <1>1, <1>5, <2>1, <2>3 DEF RpcState, Active
  <2> QED BY <2>1, <2>2, <2>3
<1>6. CASE AcquireGate(r)
  BY <1>1, <1>6 DEF AcquireGate, Active, RpcState
<1>7. CASE FailUnsent(r)
  BY <1>1, <1>7, FailOutcome DEF Active, RpcState
<1>8. CASE WriteCommand(r)
  BY <1>1, <1>8, WriteOutcome DEF Active, RpcState
<1>9. CASE \E failed \in BOOLEAN : WriteReturns(r, failed)
  BY <1>1, <1>4, <1>9 DEF Active, RpcState
<1>10. ~GiveUp(r) /\ ~Return(r)
  BY <1>1 DEF GiveUp, Return, Finish
<1> QED BY <1>1, <1>2, <1>3, <1>5, <1>6, <1>7, <1>8, <1>9, <1>10, CallMoves

\* Calls and channels keep to the issued IDs.
LEMMA CommandIdsStep ==
    ASSUME Disciplined, OutcomeInductive, CommandIds, [Next]_vars
    PROVE  CommandIds'
<1> USE DEF OutcomeInductive
<1>1. ASSUME NEW c \in Command, Touched(c)' PROVE c \in issued'
  <2>1. Touched(c) => c \in issued
    BY DEF CommandIds
  <2>2. ASSUME NEW r \in Rpc, WriteCommand(r), IdOf(r) = c PROVE c \in issued
    BY <2>2 DEF WriteCommand, CallStates, Active
  <2> QED BY <1>1, <2>1, <2>2, TouchedStep, IssuedGrows
<1>2. ASSUME NEW r \in Rpc, NEW q \in Request, Call(r, q)
      PROVE /\ rpc'[r].request = q /\ rpc'[r].pc = "gate" /\ q.id \in Command /\ rpc[r].pc = "idle"
            /\ issued' = issued \cup {q.id}
            /\ \A p \in Rpc : p # r => rpc'[p] = rpc[p]
            /\ MayIssue(q)
  BY <1>2, NullsTyped DEF Call, ControlInductive, Calls
<1>3. ASSUME NEW r \in Rpc, \A q \in Request : ~Call(r, q), Active(r)'
      PROVE Active(r) /\ IdOf(r)' = IdOf(r)
  BY <1>3, CallProgress DEF IdOf
<1>4. ASSUME Api = "serial", NEW r \in Rpc, Active(r)', NEW d \in issued'
      PROVE d <= IdOf(r)'
  <2>1. issued' \subseteq Nat
    <3>1. Command \subseteq Nat
      BY RequestAssumption DEF Command
    <3> QED BY <3>1, ControlTypesStep DEF ControlTypes
  <2>2. ASSUME NEW p \in Rpc, NEW q \in Request, Call(p, q) PROVE d <= IdOf(r)'
    <3>1. /\ \A c \in issued : c <= q.id
          /\ \A x \in Rpc : rpc[x].pc # "idle" => IdOf(x) = q.id
      BY <1>2, <1>4, <2>2 DEF MayIssue, IdOf
    <3>2. IdOf(r)' = q.id
      BY <1>2, <1>4, <2>2, <3>1 DEF IdOf, Active
    <3>3. d \in issued \/ d = q.id
      BY <1>2, <2>2
    <3> QED BY <2>1, <3>1, <3>2, <3>3
  <2>3. CASE \A p \in Rpc, q \in Request : ~Call(p, q)
    <3>1. Active(r) /\ IdOf(r)' = IdOf(r)
      BY <1>3, <1>4, <2>3
    <3>2. UNCHANGED issued
      BY <2>3, IssuedGrows
    <3> QED BY <1>4, <3>1, <3>2 DEF CommandIds
  <2> QED BY <2>2, <2>3
<1>5. ASSUME Api = "once", NEW r \in Rpc, NEW p \in Rpc, Active(r)', Active(p)',
             IdOf(r)' = IdOf(p)'
      PROVE r = p
  <2>1. ASSUME NEW x \in Rpc, NEW q \in Request, Call(x, q), NEW y \in Rpc, y # x, Active(y)'
        PROVE IdOf(y)' # IdOf(x)'
    <3>1. q.id \notin issued /\ IdOf(x)' = q.id /\ rpc'[y] = rpc[y]
      BY <1>2, <1>5, <2>1 DEF MayIssue, IdOf
    <3>2. IdOf(y) \in issued /\ IdOf(y)' = IdOf(y)
      BY <2>1, <3>1 DEF CallStates, Active, IdOf
    <3> QED BY <3>1, <3>2
  <2>2. CASE (\E q \in Request : Call(r, q)) \/ (\E q \in Request : Call(p, q))
    BY <1>5, <2>1, <2>2
  <2>3. CASE \A q \in Request : ~Call(r, q) /\ ~Call(p, q)
    BY <1>3, <1>5, <2>3 DEF CommandIds
  <2> QED BY <2>2, <2>3
<1>6. ASSUME Api = "once", NEW r \in Rpc, Active(r)', Touched(IdOf(r))'
      PROVE rpc'[r].pc \in {"sent", "await"}
  <2>1. Command \subseteq Command /\ IdOf(r)' \in Command
    BY <1>6, CallsStep, NullsTyped DEF Calls, Active, IdOf
  <2>2. CASE \E q \in Request : Call(r, q)
    <3>1. PICK q \in Request : Call(r, q)
      BY <2>2
    <3>2. IdOf(r)' = q.id /\ q.id \notin issued /\ q.id \in Command
      BY <1>2, <1>6, <3>1 DEF MayIssue, IdOf
    <3>3. ~Touched(q.id)
      BY <3>2 DEF CommandIds
    <3>4. Touched(q.id)'
      BY <1>6, <3>2
    <3>5. PICK p \in Rpc : WriteCommand(p) /\ IdOf(p) = q.id
      BY <3>2, <3>3, <3>4, TouchedStep
    <3> QED BY <3>2, <3>5 DEF WriteCommand, CallStates, Active
  <2>3. CASE \A q \in Request : ~Call(r, q)
    <3>1. Active(r) /\ IdOf(r)' = IdOf(r) /\ IdOf(r) \in Command
      BY <1>3, <1>6, <2>1, <2>3
    <3>2. Touched(IdOf(r))'
      BY <1>6, <3>1
    <3>3. CASE Touched(IdOf(r))
      BY <1>6, <2>3, <3>1, <3>3, CallProgress DEF CommandIds
    <3>4. CASE \E p \in Rpc : WriteCommand(p) /\ IdOf(p) = IdOf(r)
      <4>1. PICK p \in Rpc : WriteCommand(p) /\ IdOf(p) = IdOf(r)
        BY <3>4
      <4>2. p = r
        BY <1>6, <3>1, <4>1 DEF CommandIds, WriteCommand, Active
      <4> QED BY <4>1, <4>2, WriteOutcome DEF ControlInductive, Calls, RpcState
    <3> QED BY <3>1, <3>2, <3>3, <3>4, TouchedStep
  <2> QED BY <2>2, <2>3
<1> QED BY <1>1, <1>4, <1>5, <1>6 DEF CommandIds

----------------------------------------------------------------------------
(* Streams that have not been accepted.                                    *)

Fresh(b) == handler[b] \in {"idle", "opening", "bound", "publishing", "activating"}

\* Before a stream is accepted no command was written to it, so it carries no ACK,
\* and the Agent's context is what it was when the stream was opened.
Streams ==
    /\ \A b \in Stream : Fresh(b) =>
          /\ \A c \in Command : NoAck(toRelay[b], c)
          /\ agentStream = b => toAgent = <<>> /\ FramesCarry(toRelay[b], agentContext)
    /\ \A b \in Stream : handler[b] = "idle" => toRelay[b] = <<>> /\ agentStream # b
    /\ \A s \in Session : stream[s] # None => ~Fresh(stream[s])

\* A stream is accepted once, and opened once.
LEMMA FreshStep ==
    ASSUME Inductive, [Next]_vars, NEW b \in Stream, Fresh(b)'
    PROVE  /\ Fresh(b)
           /\ handler'[b] = "idle" =>
                 handler[b] = "idle" /\ \A s \in Session : ~ConnectStream(b, s)
<1> USE DEF Inductive, TypeOK, Fresh
<1>1. ASSUME NEW s \in Session, ConnectStream(b, s)
      PROVE handler[b] = "idle" /\ handler'[b] = "opening"
  BY <1>1 DEF ConnectStream, OpenStream
<1>2. CASE UpdateStream(b)
  BY <1>2 DEF UpdateStream, BindStream
<1>3. CASE Publication(b)
  BY <1>3 DEF Publication, PublishBegin, PublishFail, PublishOk
<1>4. CASE SwapStream(b)
  BY <1>4 DEF SwapStream, ActivateStream
<1>5. ~(EndStream(b) \/ CleanUp(b) \/ AdmitFrame(b) \/ RouteFrame(b))
  BY DEF EndStream, StreamEnds, CleanUp, DeleteStream, AdmitFrame, BeginFrame, RouteFrame,
         EndFrame
<1>6. CASE Crash
  BY <1>6 DEF Crash, Restart, ConnectStream, OpenStream
<1> QED BY <1>1, <1>2, <1>3, <1>4, <1>5, <1>6, HandlerStep

\* Who changes the accepted stream of a session, and what becomes of its commands.
LEMMA BindingStep ==
    ASSUME Inductive, [Next]_vars, NEW s \in Session, stream'[s] # stream[s]
    PROVE  \/ Crash /\ stream'[s] = None
           \/ \E b \in Stream :
                 /\ UpdateStream(b) \/ SwapStream(b)
                 /\ boundTo[b] = s /\ stream'[s] = b
                 /\ Fresh(b) /\ handler'[b] = "serving"
                 /\ ~Writing(s)
                 /\ stream[s] # None => AbortForReplacement(s)
<1> USE DEF Inductive, TypeOK
<1>1. ASSUME NEW b \in Stream, UpdateStream(b)
      PROVE /\ boundTo[b] = s /\ stream'[s] = b
            /\ Fresh(b) /\ handler'[b] = "serving"
            /\ ~Writing(s)
            /\ stream[s] # None => AbortForReplacement(s)
  <2>1. BindStream(b) /\ boundTo[b] \in Session
    BY <1>1 DEF UpdateStream, BindStream, Handlers
  <2>2. /\ OwnsAgent(boundTo[b]) /\ ~Registry
        /\ stream' = [stream EXCEPT ![boundTo[b]] = b]
        /\ handler' = [handler EXCEPT ![b] = "serving"]
        /\ handler[b] = "opening"
    BY <2>1 DEF BindStream
  <2>3. boundTo[b] = s
    BY <2>1, <2>2
  <2>4. /\ ~Writing(s)
        /\ stream[s] # None => AbortForReplacement(s)
    BY <1>1, <2>2, <2>3 DEF UpdateStream
  <2> QED BY <2>2, <2>3, <2>4 DEF Fresh
<1>2. ASSUME NEW b \in Stream, SwapStream(b)
      PROVE /\ boundTo[b] = s /\ stream'[s] = b
            /\ Fresh(b) /\ handler'[b] = "serving"
            /\ ~Writing(s)
            /\ stream[s] # None => AbortForReplacement(s)
  <2>1. ActivateStream(b) /\ boundTo[b] \in Session
    BY <1>2 DEF SwapStream, ActivateStream, Handlers
  <2>2. /\ stream' = [stream EXCEPT ![boundTo[b]] = b]
        /\ handler' = [handler EXCEPT ![b] = "serving"]
        /\ handler[b] = "activating"
    BY <2>1 DEF ActivateStream
  <2>3. boundTo[b] = s
    BY <2>1, <2>2
  <2>4. /\ ~Writing(s)
        /\ stream'[s] = b
        /\ stream[s] # None => AbortForReplacement(s)
    BY <1>2, <2>1, <2>2, <2>3 DEF SwapStream
  <2> QED BY <2>2, <2>3, <2>4 DEF Fresh
<1>3. CASE Crash
  BY <1>3 DEF Crash, Restart
<1>4. ASSUME NEW b \in Stream,
             Publication(b) \/ EndStream(b) \/ CleanUp(b) \/ ReceiveAck(b)
             \/ DeclineFrame(b) \/ AdmitFrame(b) \/ RouteFrame(b)
      PROVE FALSE
  BY <1>4 DEF Publication, PublishBegin, PublishFail, PublishOk, EndStream, StreamEnds,
              CleanUp, DeleteStream, ReceiveAck, DeclineFrame, AdmitFrame, BeginFrame,
              RouteFrame, EndFrame, lifecycleVars
<1>5. ASSUME NEW b \in Stream, NEW t \in Session, ConnectStream(b, t) PROVE FALSE
  BY <1>5 DEF ConnectStream, OpenStream
<1>6. ASSUME NEW t \in Session,
             BeginRegister(t) \/ AbandonRegister(t) \/ RestartRegister(t) \/ Register(t)
      PROVE FALSE
  BY <1>6 DEF BeginRegister, AbandonRegister, RestartRegister, Register, StartRegister,
              CancelRegister, RetryRegister, InstallSession
<1>7. ASSUME NEW r \in Rpc, GiveUp(r) \/ RpcStep(r) \/ Deadline(r) PROVE FALSE
  BY <1>7, RpcStepSimulation DEF lifecycleVars
<1>8. ASSUME NEW r \in Rpc, NEW q \in Request, Call(r, q) PROVE FALSE
  BY <1>8 DEF Call, lifecycleVars
<1>9. ~(ForgetSnapshot \/ AgentApplies \/ AgentAnswersOnly \/ AgentSendsFrame
        \/ UNCHANGED vars)
  BY DEF ForgetSnapshot, AgentApplies, AgentAnswersOnly, AgentSendsFrame, vars,
         lifecycleVars
<1> QED BY <1>1, <1>2, <1>3, <1>4, <1>5, <1>6, <1>7, <1>8, <1>9 DEF Next, StreamStep

\* What is left of a stream's messages after one was taken, or all were dropped.
Remains(p, q) == p = q \/ p = <<>> \/ (q # <<>> /\ p = Tail(q))

LEMMA Remaining ==
    ASSUME NEW q \in Seq(Upstream), NEW p, Remains(p, q), NEW c, NEW f
    PROVE  /\ NoAck(q, c) => NoAck(p, c)
           /\ NoAppliedAck(q, c) => NoAppliedAck(p, c)
           /\ AcksApplied(q, c) => AcksApplied(p, c)
           /\ AcksReport(q, c, f) => AcksReport(p, c, f)
           /\ FramesCarry(q, f) => FramesCarry(p, f)
           /\ FramesFollow(q, c, f) => FramesFollow(p, c, f)
<1>1. CASE p = <<>>
  BY <1>1 DEF NoAck, NoAppliedAck, AcksApplied, AcksReport, FramesCarry, FramesFollow
<1>2. CASE q # <<>> /\ p = Tail(q)
  BY <1>2, Leaves, LeavesCarrying
<1> QED BY <1>1, <1>2 DEF Remains

\* Without the Agent, a stream only loses messages.
LEMMA RelayRemains ==
    ASSUME ControlInductive, AgentTypes, FrameHeld, [Next]_vars, NEW b \in Stream,
           ~AgentApplies, ~AgentAnswersOnly, ~AgentSendsFrame
    PROVE  /\ toRelay[b] \in Seq(Upstream)
           /\ Remains(toRelay'[b], toRelay[b])
           /\ Fresh(b) => toRelay'[b] \in {toRelay[b], <<>>}
<1>1. toRelay[b] \in Seq(Upstream)
  BY DEF AgentTypes
<1>2. Fresh(b) => handler[b] \notin {"serving", "routing"}
  BY DEF Fresh
<1> QED BY <1>1, <1>2, RelayStep DEF Remains

\* Every step keeps the streams so.
LEMMA StreamsStep ==
    ASSUME OutcomeInductive, Streams, [Next]_vars
    PROVE  Streams'
<1> USE DEF OutcomeInductive
<1>0. Inductive /\ handler \in [Stream -> HandlerPc]
  BY DEF ControlInductive, Inductive, TypeOK
<1>1. ASSUME NEW s \in Session, NEW b \in Stream, stream'[s] = b, Fresh(b)' PROVE FALSE
  <2>1. Fresh(b) /\ handler'[b] # "serving"
    BY <1>0, <1>1, FreshStep DEF Fresh
  <2>2. CASE stream'[s] = stream[s]
    BY <1>1, <2>1, <2>2, NoneAssumption DEF Streams
  <2>3. CASE stream'[s] # stream[s]
    BY <1>0, <1>1, <2>1, <2>3, NoneAssumption, BindingStep
  <2> QED BY <2>2, <2>3
<1>2. ASSUME NEW b \in Stream, Fresh(b)'
      PROVE /\ \A c \in Command : NoAck(toRelay'[b], c)
            /\ agentStream' = b => toAgent' = <<>> /\ FramesCarry(toRelay'[b], agentContext')
            /\ handler'[b] = "idle" => toRelay'[b] = <<>> /\ agentStream' # b
  <2>1. /\ Fresh(b)
        /\ handler'[b] = "idle" =>
              handler[b] = "idle" /\ \A s \in Session : ~ConnectStream(b, s)
    BY <1>0, <1>2, FreshStep
  <2>2. /\ \A c \in Command : NoAck(toRelay[b], c)
        /\ agentStream = b => toAgent = <<>> /\ FramesCarry(toRelay[b], agentContext)
        /\ handler[b] = "idle" => toRelay[b] = <<>> /\ agentStream # b
    BY <2>1 DEF Streams
  <2>3. CASE AgentApplies \/ AgentAnswersOnly
    <3>1. agentStream # b /\ agentStream' = agentStream
      BY <2>2, <2>3, AppliesEffect, AnswersEffect
    <3>2. toRelay'[b] = toRelay[b]
      BY <2>3, <3>1, AppliesEffect, AnswersEffect, ArrivesIn
    <3> QED BY <2>1, <2>2, <3>1, <3>2
  <2>4. CASE AgentSendsFrame
    <3>1. PICK m \in Upstream :
              /\ agentStream \in Stream
              /\ UNCHANGED <<agentStream, agentContext, journal, toAgent>>
              /\ m.kind = "frame" /\ m.active = agentContext
              /\ Arrives(m)
      BY <2>4, FrameEffect
    <3>2. \A c \in Command : NoAck(toRelay'[b], c)
      BY <2>2, <3>1, ArrivesIn DEF Ack
    <3>3. FramesCarry(toRelay[b], agentContext) => FramesCarry(toRelay'[b], agentContext)
      BY <3>1, ArrivesIn, JoinsCarrying
    <3>4. handler[b] = "idle" => toRelay'[b] = toRelay[b]
      BY <2>2, <3>1, ArrivesIn
    <3> QED BY <2>1, <2>2, <3>1, <3>2, <3>3, <3>4
  <2>5. CASE ~AgentApplies /\ ~AgentAnswersOnly /\ ~AgentSendsFrame
    <3>1. toRelay'[b] \in {toRelay[b], <<>>}
      BY <2>1, <2>5, RelayRemains
    <3>2. NoAck(<<>>, agentContext) /\ \A f, c : FramesCarry(<<>>, f) /\ NoAck(<<>>, c)
      BY DEF FramesCarry, NoAck
    <3>3. CASE UNCHANGED <<agentContext, journal, agentStream, toAgent>>
      BY <2>1, <2>2, <3>1, <3>2, <3>3
    <3>4. ASSUME NEW d \in Stream, NEW s \in Session, ConnectStream(d, s)
          PROVE /\ agentStream' = b => toAgent' = <<>> /\ FramesCarry(toRelay'[b], agentContext')
                /\ handler'[b] = "idle" => agentStream' # b
      <4>1. /\ agentStream' = d /\ toAgent' = <<>> /\ toRelay' = toRelay
            /\ handler[d] = "idle"
        BY <3>4 DEF ConnectStream, OpenStream
      <4> QED BY <2>1, <2>2, <3>2, <3>4, <4>1 DEF Streams
    <3>5. ASSUME NEW r \in Rpc, WriteCommand(r)
          PROVE agentStream' = agentStream /\ agentContext' = agentContext
                /\ (agentStream = b => toAgent' = toAgent)
      <4>1. agentStream = b => stream[rpc[r].session] # agentStream
        BY <2>1, <3>5 DEF Streams, WriteCommand, ControlInductive, Calls
      <4> QED BY <3>5, <4>1, WriteEffect
    <3> QED BY <2>1, <2>2, <2>5, <3>1, <3>2, <3>3, <3>4, <3>5, AgentStep
  <2> QED BY <2>3, <2>4, <2>5
<1>3. \A b \in Stream : handler'[b] = "idle" => Fresh(b)'
  BY DEF Fresh
<1>4. \A s \in Session : stream'[s] \in Stream \cup {None}
  BY <1>0, StepSimulation, InductiveStep DEF Inductive, TypeOK
<1>5. \A s \in Session, b \in Stream : stream'[s] = b => ~Fresh(b)'
  BY <1>1
<1> HIDE DEF Fresh
<1>6. \A s \in Session : stream'[s] # None => handler'[stream'[s]] \notin
         {"idle", "opening", "bound", "publishing", "activating"}
  BY <1>4, <1>5 DEF Fresh
<1> QED BY <1>2, <1>3, <1>6 DEF Streams, Fresh

----------------------------------------------------------------------------
(* Order.                                                                  *)

\* What is on its way to the Agent, it has seen before.
Quiet == \A i \in DOMAIN toAgent : journal[toAgent[i].id] # None

\* A live command that was applied is not applied again, and nothing that was
\* written after it is: the ACKs that report it report the context the Agent has
\* now, and so do the frames behind them.
Fifo ==
    /\ \A c \in Command : Live(c) /\ journal[c] # None => Quiet
    /\ \A c \in Command : Live(c) =>
          \A i, j \in DOMAIN toAgent : i < j /\ toAgent[i].id = c => toAgent[j].id = c
    /\ \A b \in Stream, c \in Command : journal[c] = None => NoAppliedAck(toRelay[b], c)
    /\ \A b \in Stream, c \in Command : Live(c) => AcksReport(toRelay[b], c, agentContext)
    /\ agentStream # None =>
          \A c \in Command : Live(c) => FramesFollow(toRelay[agentStream], c, agentContext)

\* The IDs of the commands on their way.
LEMMA OnTheWay ==
    ASSUME AgentTypes, NEW i \in DOMAIN toAgent
    PROVE  toAgent[i] \in Request /\ toAgent[i].id \in Command
  BY NullsTyped DEF AgentTypes

\* The journal only grows.
LEMMA JournalGrows ==
    ASSUME AgentTypes, [Next]_vars
    PROVE  \A c \in Command : journal[c] # None => journal'[c] # None
<1>1. CASE AgentApplies
  <2>1. PICK q \in Request : journal' = [journal EXCEPT ![q.id] = q]
    BY <1>1, AppliesEffect
  <2> QED BY <2>1, RequestAssumption DEF AgentTypes
<1>2. CASE AgentAnswersOnly
  BY <1>2, AnswersEffect
<1>3. ASSUME NEW r \in Rpc, WriteCommand(r) PROVE UNCHANGED journal
  BY <1>3 DEF WriteCommand
<1>4. ASSUME NEW b \in Stream, NEW s \in Session, ConnectStream(b, s) PROVE UNCHANGED journal
  BY <1>4 DEF ConnectStream
<1> QED BY <1>1, <1>2, <1>3, <1>4, AgentStep

\* When the Agent applies a command, no live command was applied yet.
LEMMA AppliesFirst ==
    ASSUME AgentTypes, Fifo, AgentApplies, NEW c \in Command, Live(c)
    PROVE  /\ journal[c] = None
           /\ \A b \in Stream : \A f :
                 /\ NoAppliedAck(toRelay[b], c)
                 /\ AcksReport(toRelay[b], c, f)
                 /\ FramesFollow(toRelay[b], c, f)
<1>1. PICK q \in Request : /\ q = Head(toAgent) /\ toAgent # <<>> /\ journal[q.id] = None
  BY AppliesEffect
<1>2. ~Quiet
  BY <1>1, TakesFirst DEF Quiet, AgentTypes
<1>3. journal[c] = None
  BY <1>2 DEF Fifo
<1>4. ASSUME NEW b \in Stream, NEW f
      PROVE /\ NoAppliedAck(toRelay[b], c)
            /\ AcksReport(toRelay[b], c, f)
            /\ FramesFollow(toRelay[b], c, f)
  <2>1. NoAppliedAck(toRelay[b], c)
    BY <1>3 DEF Fifo
  <2> QED BY <2>1 DEF NoAppliedAck, AcksReport, FramesFollow
<1> QED BY <1>3, <1>4

\* Every step of a disciplined system keeps the order.
LEMMA FifoStep ==
    ASSUME Disciplined, OutcomeInductive, CommandIds, Streams, Fifo, [Next]_vars
    PROVE  Fifo'
<1> USE DEF OutcomeInductive
<1>0. /\ toAgent \in Seq(Request)
      /\ \A c \in Command : Live(c)' => Live(c)
      /\ \A c \in Command : journal[c] # None => journal'[c] # None
  BY LiveShrinks, JournalGrows DEF AgentTypes
<1>1. CASE AgentApplies
  <2>1. PICK q \in Request, m \in Upstream :
              /\ q = Head(toAgent) /\ toAgent # <<>> /\ toAgent' = Tail(toAgent)
              /\ agentStream \in Stream /\ agentStream' = agentStream
              /\ journal[q.id] = None /\ journal' = [journal EXCEPT ![q.id] = q]
              /\ m.kind = "ack" /\ m.id = q.id /\ m.status = "applied"
              /\ m.active = agentContext'
              /\ Arrives(m)
    BY <1>1, AppliesEffect
  <2>2. q.id \in Command /\ q # None /\ journal'[q.id] # None
    BY <2>1, NullsTyped, RequestAssumption DEF AgentTypes
  <2>3. \A i \in DOMAIN toAgent' : i + 1 \in DOMAIN toAgent /\ toAgent'[i] = toAgent[i + 1]
    BY <1>0, <2>1, TakesFirst
  <2>4. ASSUME NEW c \in Command, Live(c)', journal'[c] # None, NEW i \in DOMAIN toAgent'
        PROVE journal'[toAgent'[i].id] # None
    <3>1. c = q.id
      BY <1>0, <1>1, <2>1, <2>4, AppliesFirst DEF AgentTypes
    <3>2. 1 < i + 1 /\ 1 \in DOMAIN toAgent /\ toAgent[1] = q
      BY <1>0, <2>1, <2>4, TakesFirst
    <3>3. toAgent[i + 1].id = q.id
      BY <1>0, <2>3, <2>4, <3>1, <3>2 DEF Fifo
    <3> QED BY <2>2, <2>3, <2>4, <3>3
  <2>5. ASSUME NEW c \in Command, Live(c)', NEW i \in DOMAIN toAgent', NEW j \in DOMAIN toAgent',
               i < j, toAgent'[i].id = c
        PROVE toAgent'[j].id = c
    <3>1. i + 1 < j + 1 /\ i + 1 \in DOMAIN toAgent /\ j + 1 \in DOMAIN toAgent
          /\ toAgent[i + 1].id = c /\ toAgent'[j] = toAgent[j + 1]
      BY <1>0, <2>1, <2>3, <2>5, TakesFirst
    <3> QED BY <1>0, <2>5, <3>1 DEF Fifo
  <2>6. ASSUME NEW b \in Stream, NEW c \in Command, journal'[c] = None
        PROVE NoAppliedAck(toRelay'[b], c)
    <3>1. NoAppliedAck(toRelay[b], c) /\ ~AppliedAck(m, c)
      BY <1>0, <2>1, <2>2, <2>6 DEF Fifo, AppliedAck, Ack
    <3> QED BY <2>1, <3>1, ArrivalKeeps
  <2>7. ASSUME NEW b \in Stream, NEW c \in Command, Live(c)'
        PROVE /\ AcksReport(toRelay'[b], c, agentContext')
              /\ FramesFollow(toRelay'[b], c, agentContext')
    <3>1. /\ AcksReport(toRelay[b], c, agentContext')
          /\ FramesFollow(toRelay[b], c, agentContext')
      BY <1>0, <1>1, <2>7, AppliesFirst
    <3> QED BY <2>1, <3>1, ArrivalKeeps
  <2> QED BY <2>1, <2>4, <2>5, <2>6, <2>7 DEF Fifo, Quiet
<1>2. CASE AgentAnswersOnly
  <2>1. PICK q \in Request, m \in Upstream :
              /\ q = Head(toAgent) /\ toAgent # <<>> /\ toAgent' = Tail(toAgent)
              /\ agentStream \in Stream
              /\ UNCHANGED <<agentStream, agentContext, journal>>
              /\ m.kind = "ack" /\ m.id = q.id /\ m.active = agentContext
              /\ m.status = "applied" => journal[q.id] # None
              /\ Arrives(m)
    BY <1>2, AnswersEffect
  <2>2. \A i \in DOMAIN toAgent' : i + 1 \in DOMAIN toAgent /\ toAgent'[i] = toAgent[i + 1]
    BY <1>0, <2>1, TakesFirst
  <2>3. Quiet => Quiet'
    BY <2>1, <2>2 DEF Quiet
  <2>4. ASSUME NEW c \in Command, Live(c)', NEW i \in DOMAIN toAgent', NEW j \in DOMAIN toAgent',
               i < j, toAgent'[i].id = c
        PROVE toAgent'[j].id = c
    <3>1. i + 1 < j + 1 /\ i + 1 \in DOMAIN toAgent /\ j + 1 \in DOMAIN toAgent
          /\ toAgent[i + 1].id = c /\ toAgent'[j] = toAgent[j + 1]
      BY <1>0, <2>1, <2>2, <2>4, TakesFirst
    <3> QED BY <1>0, <2>4, <3>1 DEF Fifo
  <2>5. ASSUME NEW b \in Stream, NEW c \in Command, journal'[c] = None
        PROVE NoAppliedAck(toRelay'[b], c)
    <3>1. NoAppliedAck(toRelay[b], c) /\ ~AppliedAck(m, c)
      BY <1>0, <2>1, <2>5 DEF Fifo, AppliedAck, Ack
    <3> QED BY <2>1, <3>1, ArrivalKeeps
  <2>6. ASSUME NEW b \in Stream, NEW c \in Command, Live(c)'
        PROVE AcksReport(toRelay'[b], c, agentContext')
    <3>1. AcksReport(toRelay[b], c, agentContext)
      BY <1>0, <2>6 DEF Fifo
    <3> QED BY <2>1, <3>1, ArrivalKeeps
  <2>7. ASSUME NEW c \in Command, Live(c)'
        PROVE FramesFollow(toRelay'[agentStream], c, agentContext')
    <3>1. FramesFollow(toRelay[agentStream], c, agentContext) /\ agentStream \in Stream
      BY <1>0, <2>1, <2>7, NoneAssumption DEF Fifo
    <3> QED BY <2>1, <3>1, ArrivalKeeps
  <2> QED BY <1>0, <2>1, <2>3, <2>4, <2>5, <2>6, <2>7 DEF Fifo
<1>3. CASE AgentSendsFrame
  <2>1. PICK m \in Upstream :
              /\ agentStream \in Stream
              /\ UNCHANGED <<agentStream, agentContext, journal, toAgent>>
              /\ m.kind = "frame" /\ m.active = agentContext
              /\ Arrives(m)
    BY <1>3, FrameEffect
  <2>2. \A c : ~Ack(m, c) /\ ~AppliedAck(m, c)
    BY <2>1 DEF Ack, AppliedAck
  <2>3. ASSUME NEW b \in Stream, NEW c \in Command, journal'[c] = None
        PROVE NoAppliedAck(toRelay'[b], c)
    <3>1. NoAppliedAck(toRelay[b], c)
      BY <1>0, <2>1, <2>3 DEF Fifo
    <3> QED BY <2>1, <2>2, <3>1, ArrivalKeeps
  <2>4. ASSUME NEW b \in Stream, NEW c \in Command, Live(c)'
        PROVE AcksReport(toRelay'[b], c, agentContext')
    <3>1. AcksReport(toRelay[b], c, agentContext)
      BY <1>0, <2>4 DEF Fifo
    <3> QED BY <2>1, <3>1, ArrivalKeeps
  <2>5. ASSUME NEW c \in Command, Live(c)'
        PROVE FramesFollow(toRelay'[agentStream], c, agentContext')
    <3>1. FramesFollow(toRelay[agentStream], c, agentContext) /\ agentStream \in Stream
      BY <1>0, <2>1, <2>5, NoneAssumption DEF Fifo
    <3> QED BY <2>1, <3>1, ArrivalKeeps
  <2> QED BY <1>0, <2>1, <2>3, <2>4, <2>5, OnTheWay DEF Fifo, Quiet
<1>4. CASE ~AgentApplies /\ ~AgentAnswersOnly /\ ~AgentSendsFrame
  <2>1. UNCHANGED <<agentContext, journal>>
    <3>1. ASSUME NEW r \in Rpc, WriteCommand(r) PROVE UNCHANGED <<agentContext, journal>>
      BY <3>1 DEF WriteCommand
    <3>2. ASSUME NEW b \in Stream, NEW s \in Session, ConnectStream(b, s)
          PROVE UNCHANGED <<agentContext, journal>>
      BY <3>2 DEF ConnectStream
    <3> QED BY <1>4, <3>1, <3>2, AgentStep
  <2>2. ASSUME NEW b \in Stream, NEW c \in Command
        PROVE /\ journal'[c] = None => NoAppliedAck(toRelay'[b], c)
              /\ Live(c)' => AcksReport(toRelay'[b], c, agentContext')
              /\ FramesFollow(toRelay[b], c, agentContext) =>
                    FramesFollow(toRelay'[b], c, agentContext')
    <3>1. /\ journal[c] = None => NoAppliedAck(toRelay[b], c)
          /\ Live(c) => AcksReport(toRelay[b], c, agentContext)
      BY DEF Fifo
    <3>2. toRelay[b] \in Seq(Upstream) /\ Remains(toRelay'[b], toRelay[b])
      BY <1>4, RelayRemains
    <3> QED BY <1>0, <2>1, <3>1, <3>2, Remaining
  <2>3. CASE UNCHANGED <<agentContext, journal, agentStream, toAgent>>
    <3>1. \A c \in Command : Live(c)' /\ journal'[c] # None => Quiet'
      BY <1>0, <2>3 DEF Fifo, Quiet
    <3>2. \A c \in Command : Live(c)' =>
             \A i, j \in DOMAIN toAgent' : i < j /\ toAgent'[i].id = c => toAgent'[j].id = c
      BY <1>0, <2>3 DEF Fifo
    <3>3. agentStream # None =>
             \A c \in Command : Live(c)' => FramesFollow(toRelay'[agentStream], c, agentContext')
      BY <1>0, <2>2 DEF Fifo, AgentTypes
    <3> QED BY <2>2, <2>3, <3>1, <3>2, <3>3 DEF Fifo
  <2>4. ASSUME NEW b \in Stream, NEW s \in Session, ConnectStream(b, s) PROVE Fifo'
    <3>1. toAgent' = <<>> /\ agentStream' = b /\ toRelay'[b] = <<>>
      BY <2>4 DEF ConnectStream, OpenStream, Streams
    <3>2. \A c \in Command : FramesFollow(toRelay'[b], c, agentContext')
      BY <3>1 DEF FramesFollow
    <3> QED BY <2>2, <3>1, <3>2 DEF Fifo, Quiet
  <2>5. ASSUME NEW r \in Rpc, WriteCommand(r) PROVE Fifo'
    <3>1. /\ rpc[r].request \in Request /\ IdOf(r) \in Command
          /\ rpc[r].pc = "send" /\ OwnsAgent(rpc[r].session)
          /\ UNCHANGED <<agentContext, journal, agentStream, toRelay>>
      BY <2>5, WriteEffect, NullsTyped DEF WriteCommand, IdOf, CallStates, Active
    <3>2. \A c \in Command : Live(c) /\ Touched(c) => c = IdOf(r)
      BY <3>1, OneLive
    <3>3. CASE UNCHANGED toAgent
      BY <2>3, <3>1, <3>3
    <3>4. CASE toAgent' = Append(toAgent, rpc[r].request)
      <4>1. \A i \in DOMAIN toAgent' :
               \/ i \in DOMAIN toAgent /\ toAgent'[i] = toAgent[i] /\ i < Len(toAgent')
               \/ i = Len(toAgent') /\ toAgent'[i].id = IdOf(r)
        BY <1>0, <3>1, <3>4, AddsLast DEF IdOf
      <4>2. ASSUME NEW c \in Command, Live(c)', journal'[c] # None, NEW i \in DOMAIN toAgent'
            PROVE journal'[toAgent'[i].id] # None
        <5>1. Live(c) /\ journal[c] # None /\ Touched(c)
          BY <1>0, <3>1, <4>2 DEF Touched
        <5>2. Quiet /\ c = IdOf(r)
          BY <3>2, <5>1 DEF Fifo
        <5> QED BY <3>1, <4>1, <4>2, <5>1, <5>2 DEF Quiet
      <4>3. ASSUME NEW c \in Command, Live(c)', NEW i \in DOMAIN toAgent',
                   NEW j \in DOMAIN toAgent', i < j, toAgent'[i].id = c
            PROVE toAgent'[j].id = c
        <5>1. DOMAIN toAgent' = 1 .. Len(toAgent') /\ Len(toAgent') \in Nat
          BY <1>0, <3>1, <3>4, AddsLast
        <5>2. i \in DOMAIN toAgent /\ toAgent[i].id = c
          BY <4>1, <4>3, <5>1
        <5>3. Live(c) /\ c = IdOf(r)
          BY <1>0, <3>2, <4>3, <5>2 DEF Touched
        <5> QED BY <4>1, <4>3, <5>2, <5>3 DEF Fifo
      <4>4. agentStream # None =>
               \A c \in Command : Live(c)' => FramesFollow(toRelay'[agentStream], c, agentContext')
        BY <1>0, <3>1 DEF Fifo
      <4> QED BY <2>2, <3>1, <4>2, <4>3, <4>4 DEF Fifo, Quiet
    <3> QED BY <2>5, <3>3, <3>4, WriteEffect
  <2> QED BY <1>4, <2>3, <2>4, <2>5, AgentStep
<1> QED BY <1>1, <1>2, <1>3, <1>4

----------------------------------------------------------------------------
(* Where a session stands with the Agent.                                  *)

\* What the session's handler will receive.
Inbox(s) == IF stream[s] = None THEN <<>> ELSE toRelay[stream[s]]

\* The session awaits the outcome of command c.
InFlight(s, c) ==
    \E r \in Rpc : /\ rpc[r].session = s /\ rpc[r].owner
                   /\ rpc[r].pc \in {"sent", "await"} /\ IdOf(r) = c
                   /\ StateOf(r).phase = "pending"

\* The frames the session will route carry the Agent's context.
Clean(s) == stream[s] = agentStream => FramesCarry(Inbox(s), agentContext)

\* Nothing is unaccounted for.
Resting(s) ==
    /\ Quiet
    /\ context[s] = agentContext
    /\ \A d \in Command : Live(d) /\ journal[d] = None => NoAck(Inbox(s), d)
    /\ Clean(s)

\* Command c is the only one on its way that the Agent has not seen.
Flying(s, c) ==
    /\ InFlight(s, c)
    /\ journal[c] = None
    /\ stream[s] = agentStream
    /\ toAgent # <<>> /\ toAgent[Len(toAgent)].id = c
    /\ toAgent[Len(toAgent)] = command[s][c].request
    /\ \A i \in DOMAIN toAgent : i < Len(toAgent) => journal[toAgent[i].id] # None
    /\ context[s] = agentContext
    /\ NoAck(Inbox(s), c)
    /\ Clean(s)

\* The Agent did not apply c, and says so.
Refused(s, c) ==
    /\ InFlight(s, c)
    /\ journal[c] = None
    /\ Quiet
    /\ context[s] = agentContext
    /\ OneRefusal(Inbox(s), c)
    /\ Clean(s)

\* The Agent applied c, and says so before it sends a frame that shows it.
Applied(s, c) ==
    /\ InFlight(s, c)
    /\ journal[c] # None
    /\ toAgent = <<>>
    /\ AcksApplied(Inbox(s), c)
    /\ stream[s] = agentStream => AckAhead(Inbox(s), c, context[s])

Standing(s) ==
    \/ Resting(s)
    \/ \E c \in Command : Flying(s, c) \/ Refused(s, c) \/ Applied(s, c)

Unfenced(s) == OwnsAgent(s) /\ ~unreconciled[s]

Attributed == \A s \in Session : Unfenced(s) => Standing(s)

\* A call whose command was completed before it was written, in a session that is
\* not fenced, writes what the Agent has seen.
Answered ==
    \A r \in Rpc :
        rpc[r].pc = "send" /\ StateOf(r).phase # "pending" /\ ~unreconciled[rpc[r].session]
        => journal[IdOf(r)] # None

\* So does the snapshot in the reconnect cache: nothing is unaccounted for.
Cached ==
    reconnect # None =>
        /\ grpcSession = None /\ Control /\ Auth
        /\ ~reconnect.unreconciled => Quiet /\ reconnect.context = agentContext

\* A command in flight is pending, its call holds the gate and its ID is live.
LEMMA InFlightFacts ==
    ASSUME Disciplined, OutcomeInductive, CommandIds, NEW s \in Session, NEW c,
           InFlight(s, c)
    PROVE  /\ c \in PendingCommands(s) /\ c \in Command /\ Live(c)
           /\ OwnsAgent(s)
           /\ \A r \in GateHolders(s) :
                 /\ rpc[r].owner /\ rpc[r].pc \in {"sent", "await"} /\ IdOf(r) = c
                 /\ StateOf(r).phase = "pending"
           /\ \A d \in Command : Live(d) /\ Touched(d) => d = c
<1> USE DEF OutcomeInductive, ControlInductive
<1>1. PICK r \in Rpc : /\ rpc[r].session = s /\ rpc[r].owner
                       /\ rpc[r].pc \in {"sent", "await"} /\ IdOf(r) = c
                       /\ StateOf(r).phase = "pending"
  BY DEF InFlight
<1>2. c \in Command /\ c \in PendingCommands(s)
  BY <1>1, NullsTyped DEF Calls, IdOf, StateOf, PendingCommands
<1>3. OwnsAgent(s)
  BY <1>2 DEF PendingOnLiveBinding
<1>4. Live(c)
  BY <1>1, EngagedLive DEF Engaged
<1>5. r \in GateHolders(s) /\ \A p \in GateHolders(s) : p = r
  BY <1>1 DEF GateHolders, GateExcludes
<1>6. \A d \in Command : Live(d) /\ Touched(d) => d = c
  BY <1>1, <1>3, OneLive
<1> QED BY <1>1, <1>2, <1>3, <1>4, <1>5, <1>6

\* The accepted stream of the live session is served.
LEMMA OwnedStream ==
    ASSUME ControlInductive, NEW s \in Session, OwnsAgent(s)
    PROVE  /\ stream[s] \in Stream \cup {None}
           /\ stream[s] # None => /\ boundTo[stream[s]] = s /\ stream[s] \notin closed
                                  /\ ~Gone(stream[s])
                                  /\ handler[stream[s]] \in {"serving", "routing", "closing"}
  BY NoneAssumption DEF ControlInductive, Inductive, TypeOK, LiveBindings, OwnsAgent, Gone

\* Nothing new reaches the Agent but by a write.
LEMMA QuietStep ==
    ASSUME AgentTypes, Quiet, [Next]_vars, \A r \in Rpc : ~WriteCommand(r)
    PROVE  Quiet' /\ UNCHANGED <<agentContext, journal>>
<1>1. ~AgentApplies
  BY AppliesEffect, TakesFirst DEF AgentTypes, Quiet
<1>2. CASE AgentAnswersOnly
  <2>1. toAgent # <<>> /\ toAgent' = Tail(toAgent) /\ UNCHANGED <<agentContext, journal>>
    BY <1>2, AnswersEffect
  <2>2. \A i \in DOMAIN toAgent' : i + 1 \in DOMAIN toAgent /\ toAgent'[i] = toAgent[i + 1]
    BY <2>1, TakesFirst DEF AgentTypes
  <2> QED BY <2>1, <2>2 DEF Quiet
<1>3. ASSUME NEW b \in Stream, NEW s \in Session, ConnectStream(b, s)
      PROVE Quiet' /\ UNCHANGED <<agentContext, journal>>
  BY <1>3 DEF ConnectStream, Quiet
<1>4. CASE UNCHANGED <<agentContext, journal, agentStream, toAgent>>
  BY <1>4 DEF Quiet
<1> QED BY <1>1, <1>2, <1>3, <1>4, AgentStep

\* A session that hands over a reconciled snapshot awaits no outcome.
LEMMA SnapshotRests ==
    ASSUME Disciplined, OutcomeInductive, CommandIds, Attributed,
           NEW s \in Session, grpcSession = s, MayRetire(s), ~Uncertain(s)
    PROVE  Resting(s)
<1> USE DEF OutcomeInductive, ControlInductive
<1>1. Unfenced(s)
  BY NoneAssumption DEF Unfenced, Uncertain, OwnsAgent, Inductive, Registrations
<1>2. ASSUME NEW c, InFlight(s, c) PROVE FALSE
  <2>1. PICK r \in Rpc : /\ rpc[r].session = s /\ rpc[r].owner
                         /\ rpc[r].pc \in {"sent", "await"} /\ IdOf(r) = c
                         /\ StateOf(r).phase = "pending"
    BY <1>2 DEF InFlight
  <2>2. rpc[r].pc = "await"
    BY <2>1, NoneAssumption DEF MayRetire, Writing
  <2>3. StateOf(r).delivered
    BY <2>1, <2>2 DEF CallStates, Active
  <2>4. c \in PendingCommands(s)
    BY <1>2, InFlightFacts
  <2> QED BY <2>1, <2>3, <2>4 DEF Uncertain, StateOf, IdOf
<1> QED BY <1>1, <1>2 DEF Attributed, Standing, Flying, Refused, Applied

\* What aborts a command fences its session, or ends it.
LEMMA AbortsFence ==
    ASSUME ControlInductive, ControlTypes, NEW s \in Session, NEW c \in PendingCommands(s),
           OwnsAgent(s), OwnsAgent(s)', ~unreconciled'[s],
           \/ \E t \in Session : Register(t) /\ t # s
           \/ \E b \in Stream : UpdateStream(b) \/ SwapStream(b) \/ CleanUp(b)
    PROVE  command'[s][c] = command[s][c]
<1> USE DEF ControlInductive
<1>0. s # None
  BY NoneAssumption
<1>1. ASSUME NEW t \in Session, Register(t), t # s PROVE FALSE
  BY <1>1 DEF Register, InstallSession, OwnsAgent
<1>2. ASSUME NEW b \in Stream, UpdateStream(b) \/ SwapStream(b)
      PROVE command'[s] = command[s]
  <2>1. boundTo[b] \in Session
    BY <1>2 DEF UpdateStream, SwapStream, BindStream, ActivateStream, Inductive, Handlers
  <2>2. CASE UNCHANGED <<command, unreconciled>>
    BY <2>2
  <2>3. CASE AbortForReplacement(boundTo[b])
    <3>1. boundTo[b] # s
      BY <2>3 DEF AbortForReplacement, ControlTypes
    <3> QED BY <2>1, <2>3, <3>1 DEF AbortForReplacement, Commands
  <2> QED BY <1>2, <2>2, <2>3 DEF UpdateStream, SwapStream
<1>3. ASSUME NEW b \in Stream, CleanUp(b) PROVE command'[s] = command[s]
  <2>1. boundTo[b] \in Session
    BY <1>3 DEF CleanUp, DeleteStream, Inductive, Handlers
  <2> QED BY <1>3, <2>1 DEF CleanUp, OwnsAgent, Commands
<1> QED BY <1>1, <1>2, <1>3

\* A live session that is not fenced keeps its command in flight until an ACK.
LEMMA InFlightKept ==
    ASSUME OutcomeInductive, [Next]_vars, ~Crash, NEW s \in Session, NEW c \in Command,
           OwnsAgent(s), OwnsAgent(s)', ~unreconciled'[s], ~Register(s),
           InFlight(s, c), \A b \in Stream : ~Correlates(b, s, c)
    PROVE  InFlight(s, c)' /\ command'[s][c].request = command[s][c].request
<1> USE DEF OutcomeInductive, ControlInductive
<1>1. PICK r \in Rpc : /\ rpc[r].session = s /\ rpc[r].owner
                       /\ rpc[r].pc \in {"sent", "await"} /\ IdOf(r) = c
                       /\ StateOf(r).phase = "pending"
  BY DEF InFlight
<1>2. /\ c \in PendingCommands(s) /\ StateOf(r) = command[s][c]
      /\ r \in GateHolders(s) /\ \A p \in GateHolders(s) : p = r
      /\ rpc \in [Rpc -> RpcState]
  BY <1>1, NullsTyped DEF Calls, IdOf, StateOf, PendingCommands, GateHolders, GateExcludes
<1>3. ~Deadline(r)
  <2> SUFFICES ASSUME Deadline(r) PROVE FALSE
    OBVIOUS
  <2>1. StateOf(r).delivered
    BY <1>1 DEF Deadline, CallStates, Active
  <2> QED BY <1>1, <2>1 DEF Deadline, ControlTypes
<1>4. CASE rpc'[r] = rpc[r]
  <2>1. ASSUME command'[s][c] # command[s][c] PROVE FALSE
    <3>1. ASSUME NEW p \in Rpc, WorksOn(p, s, c) PROVE FALSE
      <4>1. p = r
        BY <1>2, <3>1
        DEF WorksOn, FailUnsent, WriteCommand, WriteReturns, Deadline, GateHolders
      <4> QED BY <1>1, <1>2, <1>3, <1>4, <3>1, <4>1
              DEF WorksOn, FailUnsent, WriteCommand, WriteReturns, RpcState
    <3>2. ASSUME NEW p \in Rpc, Admit(p), rpc[p].session = s PROVE FALSE
      BY <1>2, <3>2, AdmitsAlone DEF Admit
    <3>3. ~(\/ \E t \in Session : Register(t)
            \/ \E b \in Stream : UpdateStream(b) \/ SwapStream(b) \/ CleanUp(b))
      BY <1>2, <2>1, AbortsFence
    <3> QED BY <2>1, <3>1, <3>2, <3>3, CommandStep
  <2>2. StateOf(r)' = StateOf(r) /\ IdOf(r)' = IdOf(r) /\ command'[s][c] = command[s][c]
    <3>1. rpc'[r].session = s /\ rpc'[r].request.id = c
      BY <1>1, <1>4 DEF IdOf
    <3> QED BY <1>1, <1>2, <2>1, <3>1 DEF StateOf, IdOf
  <2> QED BY <1>1, <1>4, <2>2 DEF InFlight
<1>5. CASE rpc'[r] # rpc[r]
  <2>1. PICK failed \in BOOLEAN : WriteReturns(r, failed)
    BY <1>1, <1>5, CallMoves
    DEF Call, GiveUp, AcquireGate, Admit, FailUnsent, WriteCommand, Return
  <2>2. /\ rpc' = [rpc EXCEPT ![r].pc = "await"] /\ rpc[r].pc = "sent"
        /\ StateOf(r)'.phase = "pending"
    BY <1>1, <2>1, ReturnOutcome DEF ControlTypes
  <2>3. /\ rpc'[r].session = s /\ rpc'[r].owner /\ rpc'[r].pc = "await"
        /\ rpc'[r].request = rpc[r].request
    BY <1>1, <1>2, <2>2 DEF RpcState
  <2>4. command'[s][c].request = command[s][c].request
    <3>1. StateOf(r)' = command'[s][c] /\ StateOf(r) \in CommandState
      BY <1>1, <1>2, <2>3 DEF StateOf, IdOf, Commands
    <3>2. StateOf(r)' = StateOf(r) \/ StateOf(r)' = [StateOf(r) EXCEPT !.delivered = TRUE]
      BY <1>1, <2>1, <2>2, ReturnOutcome
    <3> QED BY <1>2, <3>1, <3>2 DEF CommandState
  <2> QED BY <1>1, <2>2, <2>3, <2>4 DEF InFlight, IdOf
<1> QED BY <1>4, <1>5

\* Only an ACK moves the context of an installed session, or lifts its fence.
LEMMA FenceMoves ==
    ASSUME ControlInductive, ControlTypes, [Next]_vars, ~Crash, NEW s \in Session,
           ~Register(s), \A b \in Stream, c \in Command : ~Correlates(b, s, c)
    PROVE  context'[s] = context[s] /\ (unreconciled[s] => unreconciled'[s])
<1> USE DEF ControlInductive, ControlTypes, Contexts
<1>1. ASSUME NEW t \in Session, Register(t)
      PROVE context'[s] = context[s] /\ unreconciled'[s] = unreconciled[s]
  BY <1>1 DEF Register
<1>2. ASSUME NEW b \in Stream, UpdateStream(b) \/ SwapStream(b) \/ CleanUp(b)
      PROVE context'[s] = context[s] /\ (unreconciled[s] => unreconciled'[s])
  BY <1>2 DEF UpdateStream, SwapStream, CleanUp, AbortForReplacement
<1>3. ASSUME NEW b \in Stream, ReceiveAck(b)
      PROVE context'[s] = context[s] /\ unreconciled'[s] = unreconciled[s]
  <2>1. CASE UNCHANGED <<command, context, unreconciled, emptyCommand>>
    BY <2>1
  <2>2. CASE /\ stream[boundTo[b]] = b
             /\ Received(b).id \in PendingCommands(boundTo[b])
             /\ CorrelateAck(boundTo[b], Received(b))
    <3>1. boundTo[b] # s
      BY <1>3, <2>2 DEF Correlates, PendingCommands
    <3> QED BY <2>2, <3>1 DEF CorrelateAck
  <2> QED BY <1>3, <2>1, <2>2 DEF ReceiveAck
<1>4. ASSUME NEW r \in Rpc,
             (\E failed \in BOOLEAN : WriteReturns(r, failed)) \/ Deadline(r)
      PROVE context'[s] = context[s] /\ (unreconciled[s] => unreconciled'[s])
  BY <1>4 DEF WriteReturns, Deadline
<1>5. ASSUME NEW r \in Rpc,
             GiveUp(r) \/ AcquireGate(r) \/ Admit(r) \/ FailUnsent(r) \/ WriteCommand(r)
             \/ Return(r)
      PROVE UNCHANGED <<unreconciled, context>>
  BY <1>5 DEF GiveUp, AcquireGate, Admit, FailUnsent, WriteCommand, Return
<1>6. ASSUME NEW r \in Rpc, NEW q \in Request, Call(r, q)
      PROVE UNCHANGED <<unreconciled, context>>
  BY <1>6 DEF Call
<1>7. ASSUME CommandsUntouched PROVE UNCHANGED <<unreconciled, context>>
  BY <1>7 DEF CommandsUntouched, BeginRegister, AbandonRegister, RestartRegister,
              ConnectStream, Publication, EndStream, DeclineFrame, AdmitFrame, RouteFrame,
              ForgetSnapshot, AgentApplies, AgentAnswersOnly, AgentSendsFrame, controlVars
<1>8. ASSUME UNCHANGED vars PROVE UNCHANGED <<unreconciled, context>>
  BY <1>8 DEF vars, controlVars
<1> QED
  BY <1>1, <1>2, <1>3, <1>4, <1>5, <1>6, <1>7, <1>8
  DEF Next, StreamStep, RpcStep, CommandsUntouched

\* What an ACK that leaves the session open was, and did.
LEMMA CorrelateEffect ==
    ASSUME ControlInductive, ControlTypes, AgentTypes, NEW s \in Session, NEW c \in Command,
           NEW b \in Stream, Correlates(b, s, c), ~unreconciled'[s]
    PROVE  /\ toRelay[b] # <<>> /\ toRelay'[b] = Tail(toRelay[b])
           /\ stream[s] = b /\ UNCHANGED <<agentContext, journal, agentStream, toAgent>>
           /\ UNCHANGED lifecycleVars /\ c \in PendingCommands(s)
           /\ Ack(Head(toRelay[b]), c)
           /\ \/ AppliedAck(Head(toRelay[b]), c) /\ context'[s] = Head(toRelay[b]).active
              \/ /\ Head(toRelay[b]).status # "applied"
                 /\ ~unreconciled[s] /\ context'[s] = context[s]
<1> USE DEF ControlInductive
<1>1. /\ ReceiveAck(b) /\ CorrelateAck(s, Head(toRelay[b]))
      /\ Head(toRelay[b]).id = c /\ Head(toRelay[b]).kind = "ack"
      /\ stream[s] = b /\ c \in PendingCommands(s)
  BY DEF Correlates, ReceiveAck, Received
<1>2. /\ toRelay[b] # <<>> /\ toRelay'[b] = Tail(toRelay[b])
      /\ UNCHANGED <<agentContext, journal, agentStream, toAgent>>
      /\ UNCHANGED lifecycleVars
  BY <1>1 DEF ReceiveAck, Consume, AgentTypes
<1>3. unreconciled'[s] = IF Head(toRelay[b]).status = "applied"
                         THEN ~(Head(toRelay[b]).active = command[s][c].expected)
                         ELSE unreconciled[s]
  BY <1>1 DEF CorrelateAck, FenceAfter, ControlTypes
<1>4. CASE Head(toRelay[b]).status = "applied"
  <2>1. Head(toRelay[b]).active = command[s][c].expected
    BY <1>3, <1>4
  <2>2. context' = [context EXCEPT ![s] = command[s][c].expected]
    BY <1>1, <1>4, <2>1 DEF CorrelateAck
  <2> QED BY <1>1, <1>2, <1>4, <2>1, <2>2 DEF Ack, AppliedAck, Contexts
<1>5. CASE Head(toRelay[b]).status # "applied"
  <2>1. context' = context
    BY <1>1, <1>5 DEF CorrelateAck
  <2> QED BY <1>1, <1>2, <1>3, <1>5, <2>1 DEF Ack, AppliedAck
<1> QED BY <1>4, <1>5

\* A call in admission's wake writes what was answered, if it was answered.
LEMMA AnsweredStep ==
    ASSUME Disciplined, OutcomeInductive, CommandIds, Fifo, Answered, Attributed, [Next]_vars
    PROVE  Answered'
<1> USE DEF OutcomeInductive, ControlInductive
<1> SUFFICES ASSUME NEW r \in Rpc, rpc'[r].pc = "send", StateOf(r)'.phase # "pending",
                    ~unreconciled'[rpc'[r].session]
             PROVE journal'[IdOf(r)'] # None
  BY DEF Answered, IdOf
<1>1. Active(r)' /\ \A q \in Request : ~Call(r, q)
  BY DEF Active, Call, Calls
<1>2. ~Crash
  BY DEF Crash, IdleRpc
<1>3. ~Admit(r)
  <2> SUFFICES ASSUME Admit(r) PROVE FALSE
    OBVIOUS
  <2>1. StateOf(r)' = NewCommand(rpc[r].request, Expected(rpc[r].session, rpc[r].request))
    <3>1. rpc'[r] # IdleRpc
      BY DEF IdleRpc
    <3>2. rpc' # [rpc EXCEPT ![r].pc = "await"]
      BY DEF Calls, RpcState
    <3> QED BY <3>1, <3>2, AdmitOutcome
  <2> QED BY <2>1 DEF NewCommand
<1>4. rpc'[r] = rpc[r] /\ rpc[r].pc = "send" /\ Active(r)
  BY <1>1, <1>3, CallProgress
<1>5. PICK s \in Session : s = rpc[r].session
  BY <1>4 DEF Calls, Active
<1>6. /\ ~unreconciled'[s] /\ OwnsAgent(s) /\ registerCall[s] = "done"
      /\ IdOf(r) \in Command /\ r \in GateHolders(s) /\ StateOf(r) = command[s][IdOf(r)]
  BY <1>4, <1>5, NullsTyped DEF CallStates, Calls, Active, IdOf, GateHolders, StateOf
<1>7. OwnsAgent(s)' /\ ~Register(s)
  <2>1. Writing(s)
    BY <1>4, <1>5 DEF Writing
  <2>2. OwnsAgent(s)'
    BY <1>2, <1>6, <2>1, WriterKeepsAgent
  <2> QED BY <1>2, <1>6, <2>2, OwnedBefore
<1>8. journal[IdOf(r)] # None => journal'[IdOf(r)'] # None
  BY <1>4, <1>6, JournalGrows DEF IdOf
<1>9. CASE StateOf(r).phase # "pending"
  <2>1. PendingCommands(s) = {}
    BY <1>4, <1>5, <1>9, OnlyOwnPending
  <2>2. ~unreconciled[s]
    BY <1>2, <1>6, <1>7, <2>1, FenceStep
  <2> QED BY <1>4, <1>5, <1>8, <1>9, <2>2 DEF Answered
<1>10. CASE StateOf(r).phase = "pending"
  <2> DEFINE c == IdOf(r)
  <2>1. command'[s][c] # command[s][c] /\ c \in PendingCommands(s)
    <3>1. StateOf(r)' = command'[s][c]
      BY <1>4, <1>5 DEF StateOf, IdOf
    <3> QED BY <1>6, <1>10, <3>1 DEF PendingCommands
  <2>2. ASSUME NEW p \in Rpc, WorksOn(p, s, c) PROVE FALSE
    <3>1. p = r
      BY <1>6, <2>2
      DEF WorksOn, FailUnsent, WriteCommand, WriteReturns, Deadline, GateHolders, GateExcludes
    <3> QED BY <1>4, <2>2, <3>1
            DEF WorksOn, FailUnsent, WriteCommand, WriteReturns, Deadline, RpcState, Calls
  <2>3. ASSUME NEW p \in Rpc, Admit(p), rpc[p].session = s PROVE FALSE
    BY <2>1, <2>3, AdmitsAlone DEF Admit
  <2>4. ~(\/ \E t \in Session : Register(t)
          \/ \E b \in Stream : UpdateStream(b) \/ SwapStream(b) \/ CleanUp(b))
    BY <1>6, <1>7, <2>1, AbortsFence
  <2>5. PICK b \in Stream : Correlates(b, s, c)
    BY <1>2, <1>6, <2>1, <2>2, <2>3, <2>4, CommandStep
  <2>6. /\ toRelay[b] # <<>> /\ stream[s] = b /\ Ack(Head(toRelay[b]), c)
        /\ AppliedAck(Head(toRelay[b]), c) \/ ~unreconciled[s]
        /\ toRelay[b] \in Seq(Upstream)
    BY <1>6, <2>5, CorrelateEffect DEF AgentTypes
  <2>7. CASE AppliedAck(Head(toRelay[b]), c)
    <3>1. ~NoAppliedAck(toRelay[b], c)
      BY <2>6, <2>7, Leaves
    <3> QED BY <1>6, <1>8, <3>1 DEF Fifo
  <2>8. CASE ~unreconciled[s]
    <3>1. ASSUME NEW d, InFlight(s, d) PROVE FALSE
      BY <1>4, <1>6, <3>1, InFlightFacts
    <3>2. Resting(s)
      BY <1>6, <2>8, <3>1 DEF Attributed, Unfenced, Standing, Flying, Refused, Applied
    <3>3. Live(c)
      BY <1>4, EngagedLive DEF Engaged
    <3>4. ~NoAck(Inbox(s), c)
      BY <2>6, Leaves, NoneAssumption DEF Inbox
    <3> QED BY <1>6, <1>8, <3>2, <3>3, <3>4 DEF Resting
  <2> QED BY <2>6, <2>7, <2>8
<1> QED BY <1>9, <1>10

\* Who changes the reconnect cache.
LEMMA ReconnectStep ==
    ASSUME [Next]_vars, reconnect' # reconnect
    PROVE  reconnect' = None \/ \E b \in Stream : CleanUp(b)
<1>1. ASSUME NEW s \in Session,
             BeginRegister(s) \/ AbandonRegister(s) \/ RestartRegister(s) \/ Register(s)
      PROVE reconnect' = None
  BY <1>1 DEF BeginRegister, AbandonRegister, RestartRegister, Register, controlVars
<1>2. ASSUME NEW b \in Stream, StreamStep(b) PROVE CleanUp(b)
  BY <1>2 DEF StreamStep, UpdateStream, Publication, SwapStream, EndStream,
              ReceiveAck, DeclineFrame, AdmitFrame, RouteFrame, controlVars
<1>3. ASSUME NEW r \in Rpc, GiveUp(r) \/ RpcStep(r) \/ Deadline(r) PROVE FALSE
  BY <1>3 DEF GiveUp, RpcStep, AcquireGate, Admit, FailUnsent, WriteCommand, WriteReturns,
              Return, Deadline
<1>4. ASSUME NEW r \in Rpc, NEW q \in Request, Call(r, q) PROVE FALSE
  BY <1>4 DEF Call
<1>5. ASSUME ForgetSnapshot \/ Crash PROVE reconnect' = None
  BY <1>5 DEF ForgetSnapshot, Crash
<1>6. ~(AgentApplies \/ AgentAnswersOnly \/ AgentSendsFrame \/ UNCHANGED vars)
  BY DEF AgentApplies, AgentAnswersOnly, AgentSendsFrame, vars, controlVars
<1>7. ASSUME NEW b \in Stream, NEW s \in Session, ConnectStream(b, s) PROVE FALSE
  BY <1>7 DEF ConnectStream, controlVars
<1> QED BY <1>1, <1>2, <1>3, <1>4, <1>5, <1>6, <1>7 DEF Next

\* The cached snapshot is the Agent's context until the Agent registers again.
LEMMA CachedStep ==
    ASSUME Disciplined, OutcomeInductive, CommandIds, Attributed, Cached, [Next]_vars
    PROVE  Cached'
<1> USE DEF OutcomeInductive, ControlInductive
<1> SUFFICES ASSUME reconnect' # None PROVE Cached'
  BY DEF Cached
<1>1. CASE reconnect' = reconnect
  <2>1. /\ grpcSession = None /\ Control /\ Auth
        /\ ~reconnect.unreconciled => Quiet /\ reconnect.context = agentContext
    BY <1>1 DEF Cached
  <2>2. ASSUME NEW s \in Session, Register(s) PROVE FALSE
    BY <1>1, <2>1, <2>2 DEF Register, InstallSession
  <2>3. grpcSession' = None
    BY <2>1, <2>2, OwnershipStep, NoneAssumption DEF Crash, Restart
  <2>4. \A r \in Rpc : ~WriteCommand(r)
    BY <2>1, NoneAssumption DEF WriteCommand, CallStates, Active, Calls, OwnsAgent
  <2>5. Quiet => Quiet' /\ agentContext' = agentContext
    BY <2>4, QuietStep
  <2> QED BY <1>1, <2>1, <2>3, <2>5 DEF Cached
<1>2. CASE reconnect' # reconnect
  <2>1. PICK b \in Stream : CleanUp(b)
    BY <1>2, ReconnectStep
  <2>2. PICK s \in Session : s = boundTo[b]
    BY <2>1 DEF CleanUp, DeleteStream, Inductive, Handlers
  <2>3. /\ s \in retired' \ retired /\ Control /\ Auth /\ reconnect' = SnapshotOf(s)
        /\ MayRetire(s) /\ DeleteStream(b)
        /\ UNCHANGED <<agentContext, journal, toAgent>>
    BY <1>2, <2>1, <2>2 DEF CleanUp
  <2>4. grpcSession = s /\ grpcSession' = None
    BY <2>2, <2>3 DEF DeleteStream
  <2>5. /\ reconnect'.unreconciled = Uncertain(s) /\ reconnect'.context = context[s]
    BY <2>3 DEF SnapshotOf
  <2>6. ~Uncertain(s) => Quiet /\ context[s] = agentContext
    BY <2>3, <2>4, SnapshotRests DEF Resting
  <2> QED BY <2>3, <2>4, <2>5, <2>6 DEF Cached, Quiet
<1> QED BY <1>1, <1>2

----------------------------------------------------------------------------
(* How a step moves a session that is live and not fenced after it.        *)

\* A session is installed with a context only if nothing is unaccounted for.
LEMMA RegisterStanding ==
    ASSUME Disciplined, OutcomeInductive, CommandIds, Attributed, Cached,
           NEW s \in Session, Register(s), ~unreconciled'[s]
    PROVE  Resting(s)'
<1> USE DEF OutcomeInductive, ControlInductive
<1>1. /\ unreconciled'[s] = Inherited(s).unreconciled
      /\ context'[s] = Inherited(s).context
      /\ UNCHANGED <<agentContext, journal, agentStream, toAgent, toRelay, stream>>
  BY DEF Register, ControlTypes, Contexts, agentVars, InstallSession
<1>2. stream'[s] = None
  BY <1>1 DEF Register, InstallSession, HoldsPrevious, Inductive, Registrations
<1>3. Quiet /\ context'[s] = agentContext
  <2>1. CASE ~Auth
    BY <1>1, <2>1 DEF Inherited, FreshContext, Disciplined
  <2>2. CASE Auth /\ previous[s] # None
    <3>1. PICK p \in Session : p = previous[s]
      BY <2>2 DEF Inductive, TypeOK
    <3>2. /\ grpcSession = p /\ MayRetire(p)
          /\ unreconciled'[s] = Uncertain(p) /\ context'[s] = context[p]
      BY <1>1, <2>2, <3>1 DEF Register, InstallSession, Inherited, SnapshotOf
    <3>3. Resting(p)
      BY <3>2, SnapshotRests
    <3> QED BY <3>2, <3>3 DEF Resting
  <2>3. CASE Auth /\ previous[s] = None /\ reconnect # None
    BY <1>1, <2>3 DEF Inherited, Cached
  <2>4. CASE Auth /\ previous[s] = None /\ reconnect = None
    BY <1>1, <2>4 DEF Inherited, FreshContext, Disciplined
  <2> QED BY <2>1, <2>2, <2>3, <2>4
<1>4. Quiet' /\ context'[s] = agentContext'
  BY <1>1, <1>3 DEF Quiet
<1>5. Inbox(s)' = <<>>
  BY <1>2 DEF Inbox
<1>6. \A d \in Command : NoAck(<<>>, d)
  BY DEF NoAck
<1>7. FramesCarry(<<>>, agentContext')
  BY DEF FramesCarry
<1> QED BY <1>4, <1>5, <1>6, <1>7 DEF Resting, Clean

\* The messages of a live session's stream are taken one by one.
LEMMA InboxStep ==
    ASSUME OutcomeInductive, [Next]_vars, NEW s \in Session,
           OwnsAgent(s), OwnsAgent(s)', stream'[s] = stream[s],
           ~Crash, ~AgentApplies, ~AgentAnswersOnly, ~AgentSendsFrame,
           \A b \in Stream, c \in Command : ~Correlates(b, s, c)
    PROVE  /\ Inbox(s) \in Seq(Upstream)
           /\ \/ Inbox(s)' = Inbox(s)
              \/ /\ Inbox(s) # <<>> /\ Inbox(s)' = Tail(Inbox(s))
                 /\ \A c \in PendingCommands(s) : ~Ack(Head(Inbox(s)), c)
<1> USE DEF OutcomeInductive
<1>1. CASE stream[s] = None
  BY <1>1 DEF Inbox
<1>2. CASE stream[s] # None
  <2>1. PICK b \in Stream : b = stream[s]
    BY <1>2, OwnedStream
  <2>2. boundTo[b] = s /\ b \notin closed /\ toRelay[b] \in Seq(Upstream)
    BY <1>2, <2>1, OwnedStream DEF AgentTypes
  <2>3. Inbox(s) = toRelay[b] /\ Inbox(s)' = toRelay'[b]
    BY <1>2, <2>1 DEF Inbox
  <2>4. ~CleanUp(b)
    BY <2>1, <2>2, NoneAssumption
    DEF CleanUp, DeleteStream, IsCurrentStream, OwnsAgent
  <2>5. ASSUME ReceiveAck(b), NEW c \in PendingCommands(s) PROVE ~Ack(Head(toRelay[b]), c)
    BY <2>1, <2>2, <2>5 DEF ReceiveAck, Received, Correlates, Ack, PendingCommands
  <2>6. Head(toRelay[b]).kind = "frame" => \A c : ~Ack(Head(toRelay[b]), c)
    BY DEF Ack
  <2> QED BY <2>2, <2>3, <2>4, <2>5, <2>6, RelayStep
<1> QED BY <1>1, <1>2

\* A step that leaves the Agent alone and takes no answer the session awaits.
LEMMA StandingKept ==
    ASSUME Disciplined, OutcomeInductive, CommandIds, [Next]_vars, NEW s \in Session,
           UNCHANGED <<agentContext, journal, agentStream, toAgent>>,
           context'[s] = context[s], stream'[s] = stream[s],
           \A c \in Command : InFlight(s, c) =>
              InFlight(s, c)' /\ command'[s][c].request = command[s][c].request,
           Inbox(s) \in Seq(Upstream),
           \/ Inbox(s)' = Inbox(s)
           \/ /\ Inbox(s) # <<>> /\ Inbox(s)' = Tail(Inbox(s))
              /\ \A c \in PendingCommands(s) : ~Ack(Head(Inbox(s)), c),
           Standing(s)
    PROVE  Standing(s)'
<1> USE DEF OutcomeInductive
<1>0. PICK q, p : q = Inbox(s) /\ p = Inbox(s)' /\ q \in Seq(Upstream)
  OBVIOUS
<1>1. /\ Quiet => Quiet'
      /\ \A d \in Command : Live(d)' => Live(d)
      /\ \A d : NoAck(q, d) => NoAck(p, d)
      /\ \A f : FramesCarry(q, f) => FramesCarry(p, f)
      /\ \A d : AcksApplied(q, d) => AcksApplied(p, d)
      /\ Remains(p, q)
  <2>1. Remains(p, q)
    BY <1>0 DEF Remains
  <2> QED BY <1>0, <2>1, LiveShrinks, Remaining DEF Quiet
<1>2. Clean(s) => Clean(s)'
  BY <1>0, <1>1 DEF Clean
<1>3. Resting(s) => Resting(s)'
  BY <1>0, <1>1, <1>2 DEF Resting
<1>4. ASSUME NEW c \in Command, InFlight(s, c)
      PROVE /\ OneRefusal(q, c) => OneRefusal(p, c)
            /\ AckAhead(q, c, context[s]) => AckAhead(p, c, context[s])
            /\ InFlight(s, c)' /\ command'[s][c].request = command[s][c].request
  <2>1. c \in PendingCommands(s)
    BY <1>4, InFlightFacts
  <2> QED BY <1>0, <1>4, <2>1, Leaves, LeavesCarrying
<1>5. ASSUME NEW c \in Command, Flying(s, c) PROVE Flying(s, c)'
  BY <1>0, <1>1, <1>2, <1>4, <1>5 DEF Flying
<1>6. ASSUME NEW c \in Command, Refused(s, c) PROVE Refused(s, c)'
  BY <1>0, <1>1, <1>2, <1>4, <1>6 DEF Refused
<1>7. ASSUME NEW c \in Command, Applied(s, c) PROVE Applied(s, c)'
  BY <1>0, <1>1, <1>4, <1>7 DEF Applied
<1> QED BY <1>3, <1>5, <1>6, <1>7 DEF Standing

\* The ACK that settles a command leaves nothing unaccounted for.
LEMMA CorrelateStanding ==
    ASSUME Disciplined, OutcomeInductive, CommandIds, Fifo, Attributed, [Next]_vars,
           NEW s \in Session, NEW c \in Command, NEW b \in Stream,
           Correlates(b, s, c), ~unreconciled'[s]
    PROVE  Resting(s)'
<1> USE DEF OutcomeInductive, ControlInductive
<1>1. /\ toRelay[b] # <<>> /\ toRelay'[b] = Tail(toRelay[b])
      /\ stream[s] = b /\ UNCHANGED <<agentContext, journal, agentStream, toAgent>>
      /\ UNCHANGED lifecycleVars /\ c \in PendingCommands(s)
      /\ Ack(Head(toRelay[b]), c)
      /\ \/ AppliedAck(Head(toRelay[b]), c) /\ context'[s] = Head(toRelay[b]).active
         \/ /\ Head(toRelay[b]).status # "applied"
            /\ ~unreconciled[s] /\ context'[s] = context[s]
  BY CorrelateEffect
<1>2. /\ toRelay[b] \in Seq(Upstream) /\ stream'[s] = b
      /\ Inbox(s) = toRelay[b] /\ Inbox(s)' = Tail(toRelay[b])
  BY <1>1, NoneAssumption DEF AgentTypes, Inbox, lifecycleVars
<1>3. OwnsAgent(s)
  BY <1>1 DEF PendingOnLiveBinding
<1>4. /\ Live(c)
      /\ \A d \in Command : Live(d) /\ Touched(d) => d = c
      /\ \A d : InFlight(s, d) => d = c
  <2>1. PICK r \in GateHolders(s) : rpc[r].owner /\ rpc[r].request = command[s][c].request
    BY <1>1 DEF PendingOnLiveBinding
  <2>2. /\ r \in Rpc /\ rpc[r].session = s /\ rpc[r].pc \in {"send", "sent", "await"}
        /\ IdOf(r) = c /\ StateOf(r).phase = "pending"
    BY <1>1, <2>1 DEF GateHolders, Calls, Commands, PendingCommands, IdOf, StateOf
  <2>3. Engaged(r)
    BY <2>2 DEF Engaged
  <2>4. \A d : InFlight(s, d) => d = c
    BY <2>1, <2>2, InFlightFacts
  <2> QED BY <1>3, <2>2, <2>3, <2>4, EngagedLive, OneLive
<1>5. \A d \in Command : Live(d)' => Live(d)
  BY LiveShrinks
<1>6. \A d \in Command : ~NoAck(Tail(toRelay[b]), d) => Touched(d)
  BY <1>1, <1>2, Leaves DEF Touched
<1>7. CASE AppliedAck(Head(toRelay[b]), c)
  <2>1. journal[c] # None
    BY <1>1, <1>2, <1>7, Leaves DEF Fifo
  <2>2. Quiet /\ Head(toRelay[b]).active = agentContext
    <3>1. AcksReport(toRelay[b], c, agentContext)
      BY <1>4 DEF Fifo
    <3> QED BY <1>1, <1>2, <1>4, <1>7, <2>1, <3>1, LeavesCarrying DEF Fifo
  <2>3. context'[s] = agentContext
    BY <1>1, <1>7, <2>2 DEF AppliedAck
  <2>4. agentStream = b => FramesCarry(Tail(toRelay[b]), agentContext)
    <3>1. agentStream = b => FramesFollow(toRelay[b], c, agentContext)
      BY <1>4, NoneAssumption DEF Fifo
    <3> QED BY <1>1, <1>2, <1>7, <3>1, LeavesCarrying
  <2>5. \A d \in Command : Live(d) /\ journal[d] = None => NoAck(Tail(toRelay[b]), d)
    BY <1>4, <1>6, <2>1
  <2>6. Quiet' /\ Clean(s)'
    BY <1>1, <1>2, <2>2, <2>4 DEF Quiet, Clean
  <2> QED BY <1>1, <1>2, <1>5, <2>3, <2>5, <2>6 DEF Resting
<1>8. CASE Head(toRelay[b]).status # "applied"
  <2>1. ~unreconciled[s] /\ context'[s] = context[s]
    BY <1>1, <1>8 DEF AppliedAck
  <2>2. Standing(s)
    BY <1>3, <2>1 DEF Attributed, Unfenced
  <2>3. ASSUME NEW d \in Command, Flying(s, d) PROVE FALSE
    BY <1>1, <1>2, <1>4, <2>3, Leaves DEF Flying
  <2>4. ASSUME NEW d \in Command, Applied(s, d) PROVE FALSE
    BY <1>1, <1>2, <1>4, <1>8, <2>4, Leaves DEF Applied
  <2>5. Clean(s) => Clean(s)'
    BY <1>1, <1>2, LeavesCarrying DEF Clean
  <2>6. CASE Resting(s)
    <3>1. \A d \in Command : Live(d) /\ journal[d] = None => NoAck(Tail(toRelay[b]), d)
      BY <1>1, <1>2, <2>6, Leaves DEF Resting
    <3> QED BY <1>1, <1>2, <1>5, <2>1, <2>5, <2>6, <3>1 DEF Resting, Quiet
  <2>7. ASSUME NEW d \in Command, Refused(s, d) PROVE Resting(s)'
    <3>1. NoAck(Tail(toRelay[b]), c)
      BY <1>1, <1>2, <1>4, <2>7, Leaves DEF Refused
    <3>2. \A x \in Command : Live(x) => NoAck(Tail(toRelay[b]), x)
      BY <1>4, <1>6, <3>1
    <3> QED BY <1>1, <1>2, <1>5, <2>1, <2>5, <2>7, <3>2 DEF Resting, Refused, Quiet
  <2> QED BY <2>2, <2>3, <2>4, <2>6, <2>7 DEF Standing
<1> QED BY <1>1, <1>7, <1>8

\* The Agent applies a command: it was the one in flight.
LEMMA AppliesStanding ==
    ASSUME Disciplined, OutcomeInductive, CommandIds, NEW s \in Session, OwnsAgent(s),
           AgentApplies, Standing(s),
           \A c \in Command : InFlight(s, c) =>
              InFlight(s, c)' /\ command'[s][c].request = command[s][c].request,
           context'[s] = context[s], stream'[s] = stream[s]
    PROVE  Standing(s)'
<1> USE DEF OutcomeInductive, ControlInductive
<1>1. PICK q \in Request, m \in Upstream :
              /\ q = Head(toAgent) /\ toAgent # <<>> /\ toAgent' = Tail(toAgent)
              /\ agentStream \in Stream /\ agentStream' = agentStream
              /\ journal[q.id] = None /\ journal' = [journal EXCEPT ![q.id] = q]
              /\ m.kind = "ack" /\ m.id = q.id /\ m.status = "applied"
              /\ m.active = agentContext'
              /\ Arrives(m)
  BY AppliesEffect
<1>2. toAgent \in Seq(Request) /\ 1 \in DOMAIN toAgent /\ toAgent[1] = q
  BY <1>1, TakesFirst DEF AgentTypes
<1>3. ~Quiet
  BY <1>1, <1>2 DEF Quiet
<1>4. PICK c \in Command : Flying(s, c)
  BY <1>1, <1>3 DEF Standing, Resting, Refused, Applied
<1>5. Len(toAgent) = 1 /\ toAgent' = <<>> /\ c = q.id
  <2>1. /\ toAgent[Len(toAgent)].id = c
        /\ \A i \in DOMAIN toAgent : i < Len(toAgent) => journal[toAgent[i].id] # None
    BY <1>4 DEF Flying
  <2>2. DOMAIN toAgent = 1 .. Len(toAgent) /\ Len(toAgent) \in Nat
    BY <1>2
  <2>3. Len(toAgent) = 1
    BY <1>1, <1>2, <2>1, <2>2
  <2> QED BY <1>1, <1>2, <2>1, <2>3, TakesFirst
<1>6. journal'[c] # None
  BY <1>1, <1>5, RequestAssumption DEF AgentTypes
<1>7. PICK b \in Stream : b = agentStream /\ b = stream[s]
  BY <1>1, <1>4 DEF Flying
<1>8. /\ Inbox(s) = toRelay[b] /\ Inbox(s)' = toRelay'[b]
      /\ toRelay[b] \in Seq(Upstream) /\ toRelay'[b] = Append(toRelay[b], m)
  <2>1. b # None
    BY NoneAssumption
  <2>2. ~Gone(b)
    BY <1>7, <2>1, OwnedStream
  <2>3. toRelay'[b] = Append(toRelay[b], m)
    BY <1>1, <1>7, <2>2 DEF Arrives
  <2>4. stream[s] = b /\ stream'[s] = b
    BY <1>7
  <2> QED BY <2>1, <2>3, <2>4 DEF Inbox, AgentTypes
<1>9. NoAck(toRelay[b], c) /\ FramesCarry(toRelay[b], context[s])
  BY <1>4, <1>7, <1>8 DEF Flying, Clean
<1>10. AcksApplied(toRelay[b], c)
  BY <1>9 DEF NoAck, AcksApplied
<1>11. AcksApplied(toRelay'[b], c) /\ AckAhead(toRelay'[b], c, context[s])
  BY <1>1, <1>5, <1>8, <1>9, <1>10, Joins, JoinsCarrying DEF Ack
<1>12. InFlight(s, c)'
  BY <1>4 DEF Flying
<1> QED BY <1>5, <1>6, <1>8, <1>11, <1>12 DEF Standing, Applied

\* The Agent only answers: the command in flight is refused, or was not the first.
LEMMA AnswersStanding ==
    ASSUME Disciplined, OutcomeInductive, CommandIds, NEW s \in Session, OwnsAgent(s),
           AgentAnswersOnly, Standing(s), [Next]_vars,
           \A c \in Command : InFlight(s, c) =>
              InFlight(s, c)' /\ command'[s][c].request = command[s][c].request,
           context'[s] = context[s], stream'[s] = stream[s]
    PROVE  Standing(s)'
<1> USE DEF OutcomeInductive, ControlInductive
<1>1. PICK q \in Request, m \in Upstream :
              /\ q = Head(toAgent) /\ toAgent # <<>> /\ toAgent' = Tail(toAgent)
              /\ agentStream \in Stream
              /\ UNCHANGED <<agentStream, agentContext, journal>>
              /\ m.kind = "ack" /\ m.id = q.id /\ m.active = agentContext
              /\ m.status = "applied" => journal[q.id] # None
              /\ Arrives(m)
  BY AnswersEffect
<1>2. toAgent \in Seq(Request) /\ 1 \in DOMAIN toAgent /\ toAgent[1] = q
  BY <1>1, TakesFirst DEF AgentTypes
<1>3. \A i \in DOMAIN toAgent' : i + 1 \in DOMAIN toAgent /\ toAgent'[i] = toAgent[i + 1]
  BY <1>1, <1>2, TakesFirst
<1>4. Quiet => Quiet' /\ journal[q.id] # None
  BY <1>1, <1>2, <1>3 DEF Quiet
<1>5. \A d : d # q.id => ~Ack(m, d)
  BY <1>1 DEF Ack
<1>6. CASE stream[s] = None
  <2>1. Inbox(s) = <<>> /\ Inbox(s)' = <<>> /\ stream[s] # agentStream
    BY <1>1, <1>6, NoneAssumption DEF Inbox
  <2>2. ~OneRefusal(<<>>, q.id) /\ \A d : ~OneRefusal(<<>>, d)
    BY DEF OneRefusal
  <2>3. Resting(s) => Resting(s)'
    BY <1>1, <1>4, <2>1, LiveShrinks DEF Resting, Clean
  <2>4. ASSUME NEW c \in Command, Flying(s, c) \/ Refused(s, c) \/ Applied(s, c) PROVE FALSE
    BY <1>1, <2>1, <2>2, <2>4 DEF Flying, Refused, Applied
  <2> QED BY <2>3, <2>4 DEF Standing
<1>7. CASE stream[s] # None
  <2>1. PICK b \in Stream : b = stream[s]
    BY <1>7, OwnedStream
  <2>2. /\ Inbox(s) = toRelay[b] /\ Inbox(s)' = toRelay'[b]
        /\ toRelay[b] \in Seq(Upstream) /\ ~Gone(b)
    BY <1>7, <2>1, OwnedStream DEF Inbox, AgentTypes
  <2>3. \A f : FramesCarry(toRelay[b], f) => FramesCarry(toRelay'[b], f)
    BY <1>1, ArrivalKeeps
  <2>4. \A d : d # q.id /\ NoAck(toRelay[b], d) => NoAck(toRelay'[b], d)
    BY <1>1, <1>5, ArrivesIn
  <2>5. \A d : d # q.id /\ OneRefusal(toRelay[b], d) => OneRefusal(toRelay'[b], d)
    BY <1>1, <1>5, ArrivalKeeps
  <2>6. Clean(s) => Clean(s)'
    BY <1>1, <2>1, <2>2, <2>3 DEF Clean
  <2>7. CASE Resting(s)
    <3>1. \A d \in Command : Live(d)' /\ journal'[d] = None => NoAck(toRelay'[b], d)
      BY <1>1, <1>4, <2>2, <2>4, <2>7, LiveShrinks DEF Resting
    <3> QED BY <1>1, <1>4, <2>2, <2>6, <2>7, <3>1 DEF Resting, Standing
  <2>8. ASSUME NEW c \in Command, Refused(s, c) PROVE Refused(s, c)'
    <3>1. c # q.id /\ OneRefusal(toRelay[b], c)
      BY <1>4, <2>2, <2>8 DEF Refused
    <3> QED BY <1>1, <1>4, <2>2, <2>5, <2>6, <2>8, <3>1 DEF Refused
  <2>9. ASSUME NEW c \in Command, Applied(s, c) PROVE FALSE
    BY <1>1, <2>9 DEF Applied
  <2>10. ASSUME NEW c \in Command, Flying(s, c) PROVE Flying(s, c)' \/ Refused(s, c)'
    <3>1. /\ toAgent[Len(toAgent)].id = c /\ journal[c] = None
          /\ toAgent[Len(toAgent)] = command'[s][c].request
          /\ \A i \in DOMAIN toAgent : i < Len(toAgent) => journal[toAgent[i].id] # None
          /\ stream[s] = agentStream /\ NoAck(toRelay[b], c)
          /\ InFlight(s, c)' /\ context'[s] = agentContext' /\ Clean(s)'
      BY <1>1, <2>2, <2>6, <2>10 DEF Flying
    <3>2. DOMAIN toAgent = 1 .. Len(toAgent) /\ Len(toAgent) \in Nat
      BY <1>2
    <3>3. CASE toAgent' = <<>>
      <4>1. Len(toAgent) = 1 /\ q.id = c
        BY <1>1, <1>2, <3>1, <3>3, TakesFirst
      <4>2. toRelay'[b] = Append(toRelay[b], m)
        BY <1>1, <2>1, <2>2, <3>1 DEF Arrives
      <4>3. OneRefusal(toRelay'[b], c)
        BY <1>1, <2>2, <3>1, <4>1, <4>2, Joins DEF Ack
      <4> QED BY <1>1, <2>2, <3>1, <3>3, <4>3 DEF Refused, Quiet
    <3>4. CASE toAgent' # <<>>
      <4>1. /\ Len(toAgent') = Len(toAgent) - 1 /\ Len(toAgent) # 1
            /\ toAgent'[Len(toAgent')] = toAgent[Len(toAgent)]
            /\ DOMAIN toAgent' \subseteq Nat
        BY <1>1, <1>2, <3>4, TakesFirst
      <4>2. q.id # c
        BY <1>2, <3>1, <3>2, <4>1
      <4>3. \A i \in DOMAIN toAgent' : i < Len(toAgent') => journal'[toAgent'[i].id] # None
        BY <1>1, <1>3, <3>1, <3>2, <4>1
      <4> QED BY <1>1, <2>2, <2>4, <3>1, <3>4, <4>1, <4>2, <4>3 DEF Flying
    <3> QED BY <3>3, <3>4
  <2> QED BY <2>7, <2>8, <2>9, <2>10 DEF Standing
<1> QED BY <1>6, <1>7

\* A frame joins what is on its way to the Relay.
LEMMA FrameStanding ==
    ASSUME Disciplined, OutcomeInductive, CommandIds, NEW s \in Session, OwnsAgent(s),
           AgentSendsFrame, Standing(s), [Next]_vars,
           \A c \in Command : InFlight(s, c) =>
              InFlight(s, c)' /\ command'[s][c].request = command[s][c].request,
           context'[s] = context[s], stream'[s] = stream[s]
    PROVE  Standing(s)'
<1> USE DEF OutcomeInductive, ControlInductive
<1>0. PICK q, p : q = Inbox(s) /\ p = Inbox(s)'
  OBVIOUS
<1>1. PICK m \in Upstream :
              /\ agentStream \in Stream
              /\ UNCHANGED <<agentStream, agentContext, journal, toAgent>>
              /\ m.kind = "frame" /\ m.active = agentContext
              /\ Arrives(m)
  BY FrameEffect
<1>2. \A d : ~Ack(m, d)
  BY <1>1 DEF Ack
<1>3. /\ Quiet => Quiet'
      /\ \A d \in Command : Live(d)' => Live(d)
  BY <1>1, LiveShrinks DEF Quiet
<1>4. /\ \A d : NoAck(q, d) => NoAck(p, d)
      /\ \A d : AcksApplied(q, d) => AcksApplied(p, d)
      /\ \A d : OneRefusal(q, d) => OneRefusal(p, d)
      /\ \A d, f : AckAhead(q, d, f) => AckAhead(p, d, f)
      /\ FramesCarry(q, agentContext) => FramesCarry(p, agentContext)
  <2>1. CASE stream[s] = None
    BY <1>0, <2>1 DEF Inbox
  <2>2. CASE stream[s] # None
    <3>1. PICK b \in Stream : b = stream[s]
      BY <2>2, OwnedStream
    <3>2. q = toRelay[b] /\ p = toRelay'[b]
      BY <1>0, <2>2, <3>1 DEF Inbox
    <3>3. \A d : NoAck(q, d) => NoAck(p, d)
      BY <1>1, <1>2, <3>2, ArrivesIn
    <3>4. ASSUME NEW d, NEW f
          PROVE /\ AcksApplied(q, d) => AcksApplied(p, d)
                /\ OneRefusal(q, d) => OneRefusal(p, d)
                /\ AckAhead(q, d, f) => AckAhead(p, d, f)
      BY <1>1, <1>2, <3>2, ArrivalKeeps
    <3>5. FramesCarry(q, agentContext) => FramesCarry(p, agentContext)
      BY <1>1, <3>2, ArrivalKeeps
    <3> QED BY <3>3, <3>4, <3>5
  <2> QED BY <2>1, <2>2
<1>5. Clean(s) => Clean(s)'
  BY <1>0, <1>1, <1>4 DEF Clean
<1>6. CASE Resting(s)
  BY <1>0, <1>1, <1>3, <1>4, <1>5, <1>6 DEF Resting, Standing
<1>7. ASSUME NEW c \in Command, Flying(s, c) PROVE Flying(s, c)'
  BY <1>0, <1>1, <1>4, <1>5, <1>7 DEF Flying
<1>8. ASSUME NEW c \in Command, Refused(s, c) PROVE Refused(s, c)'
  BY <1>0, <1>1, <1>3, <1>4, <1>5, <1>8 DEF Refused
<1>9. ASSUME NEW c \in Command, Applied(s, c) PROVE Applied(s, c)'
  BY <1>0, <1>1, <1>4, <1>9 DEF Applied
<1> QED BY <1>6, <1>7, <1>8, <1>9 DEF Standing

\* An ACK in the inbox makes its command known.
LEMMA InboxTouches ==
    ASSUME OutcomeInductive, NEW s \in Session, OwnsAgent(s), NEW c, ~NoAck(Inbox(s), c)
    PROVE  Touched(c)
<1>1. CASE stream[s] = None
  BY <1>1 DEF Inbox, NoAck
<1>2. CASE stream[s] # None
  BY <1>2, OwnedStream DEF Inbox, Touched, OutcomeInductive
<1> QED BY <1>1, <1>2

\* The Agent opens another stream, and gives up what was on its way to it.
LEMMA ConnectStanding ==
    ASSUME Disciplined, OutcomeInductive, CommandIds, Streams, NEW s \in Session,
           OwnsAgent(s), Standing(s), [Next]_vars,
           NEW b \in Stream, NEW t \in Session, ConnectStream(b, t),
           \A c \in Command : InFlight(s, c) =>
              InFlight(s, c)' /\ command'[s][c].request = command[s][c].request,
           context'[s] = context[s], stream'[s] = stream[s]
    PROVE  Standing(s)'
<1> USE DEF OutcomeInductive, ControlInductive
<1>1. /\ agentStream' = b /\ toAgent' = <<>> /\ handler[b] = "idle"
      /\ UNCHANGED <<agentContext, journal, toRelay>>
  BY DEF ConnectStream, OpenStream
<1>2. stream[s] # b
  BY <1>1, NoneAssumption DEF Streams, Fresh
<1>3. Inbox(s)' = Inbox(s)
  BY <1>1 DEF Inbox
<1>4. Clean(s)' /\ Quiet'
  BY <1>1, <1>2 DEF Clean, Quiet
<1>5. \A d \in Command : Live(d)' => Live(d)
  BY LiveShrinks
<1>6. CASE Resting(s)
  BY <1>1, <1>3, <1>4, <1>5, <1>6 DEF Resting, Standing
<1>7. ASSUME NEW c \in Command, Flying(s, c) PROVE Resting(s)'
  <2>1. \A d \in Command : Live(d) /\ Touched(d) => d = c
    BY <1>7, InFlightFacts DEF Flying
  <2>2. \A d \in Command : Live(d) => NoAck(Inbox(s), d)
    BY <1>7, <2>1, InboxTouches DEF Flying
  <2> QED BY <1>1, <1>3, <1>4, <1>5, <1>7, <2>2 DEF Flying, Resting
<1>8. ASSUME NEW c \in Command, Refused(s, c) PROVE Refused(s, c)'
  BY <1>1, <1>3, <1>4, <1>8 DEF Refused
<1>9. ASSUME NEW c \in Command, Applied(s, c) PROVE Applied(s, c)'
  BY <1>1, <1>2, <1>3, <1>9 DEF Applied
<1> QED BY <1>6, <1>7, <1>8, <1>9 DEF Standing

\* Another stream is accepted: no command awaited an answer on the old one.
LEMMA BindingStanding ==
    ASSUME Disciplined, OutcomeInductive, CommandIds, Streams, NEW s \in Session,
           OwnsAgent(s), Standing(s), [Next]_vars, ~Crash, stream'[s] # stream[s],
           ~unreconciled'[s], context'[s] = context[s]
    PROVE  Standing(s)'
<1> USE DEF OutcomeInductive, ControlInductive
<1>1. PICK b \in Stream :
                 /\ UpdateStream(b) \/ SwapStream(b)
                 /\ boundTo[b] = s /\ stream'[s] = b
                 /\ Fresh(b) /\ handler'[b] = "serving"
                 /\ ~Writing(s)
                 /\ stream[s] # None => AbortForReplacement(s)
  BY BindingStep
<1>2. PendingCommands(s) = {}
  <2>1. CASE stream[s] # None
    BY <1>1, <2>1 DEF AbortForReplacement, ControlTypes
  <2>2. CASE stream[s] = None
    <3> SUFFICES ASSUME NEW c \in PendingCommands(s) PROVE FALSE
      OBVIOUS
    <3>1. PICK r \in GateHolders(s) : rpc[r].owner /\ rpc[r].request = command[s][c].request
      BY DEF PendingOnLiveBinding
    <3>2. /\ r \in Rpc /\ rpc[r].session = s /\ rpc[r].pc \in {"send", "sent", "await"}
          /\ StateOf(r) = command[s][c] /\ StateOf(r).phase = "pending"
      BY <3>1 DEF GateHolders, Calls, Commands, PendingCommands, StateOf
    <3>3. rpc[r].pc = "await"
      BY <1>1, <3>2 DEF Writing
    <3>4. StateOf(r).on # None
      BY <3>2, <3>3 DEF CallStates, Active
    <3> QED BY <2>2, <3>2, <3>4 DEF PendingOnLiveBinding
  <2> QED BY <2>1, <2>2
<1>3. Resting(s)
  <2>1. \A c \in Command : ~InFlight(s, c)
    BY <1>2, InFlightFacts
  <2> QED BY <2>1 DEF Standing, Flying, Refused, Applied
<1>4. UNCHANGED <<agentContext, journal, agentStream, toAgent, toRelay>>
  BY <1>1 DEF UpdateStream, SwapStream, agentVars
<1>5. Inbox(s)' = toRelay[b]
  BY <1>1, <1>4, NoneAssumption DEF Inbox
<1>6. /\ \A c \in Command : NoAck(toRelay[b], c)
      /\ agentStream = b => FramesCarry(toRelay[b], agentContext)
  BY <1>1 DEF Streams
<1>7. Clean(s)' /\ Quiet'
  BY <1>1, <1>3, <1>4, <1>5, <1>6 DEF Clean, Resting, Quiet
<1> QED BY <1>3, <1>4, <1>5, <1>6, <1>7 DEF Resting, Standing

\* A command is written: the only one in flight, or one the Agent has seen.
LEMMA WriteStanding ==
    ASSUME Disciplined, OutcomeInductive, CommandIds, Answered, NEW s \in Session,
           OwnsAgent(s), ~unreconciled[s], Standing(s), [Next]_vars,
           NEW r \in Rpc, WriteCommand(r)
    PROVE  Standing(s)'
<1> USE DEF OutcomeInductive, ControlInductive
<1>0. PICK c \in Command : c = IdOf(r)
  BY WriteEffect, NullsTyped DEF IdOf
<1>1. /\ rpc[r].request \in Request /\ c = IdOf(r) /\ c = rpc[r].request.id
      /\ rpc[r].pc = "send" /\ OwnsAgent(rpc[r].session) /\ rpc[r].owner
      /\ UNCHANGED <<agentContext, journal, agentStream, toRelay, context, stream>>
  BY <1>0, WriteEffect DEF WriteCommand, IdOf, CallStates, Active, lifecycleVars
<1>2. rpc[r].session = s /\ r \in GateHolders(s)
  BY <1>1 DEF OwnsAgent, GateHolders
<1>3. Resting(s)
  <2>1. \A d \in Command : ~InFlight(s, d)
    BY <1>1, <1>2, InFlightFacts
  <2> QED BY <2>1 DEF Standing, Flying, Refused, Applied
<1>4. /\ Inbox(s)' = Inbox(s) /\ Clean(s)'
      /\ context'[s] = agentContext'
      /\ \A d \in Command : Live(d)' => Live(d)
  BY <1>1, <1>3, LiveShrinks DEF Resting, Clean, Inbox
<1>5. Quiet' => Resting(s)'
  BY <1>1, <1>3, <1>4 DEF Resting
<1>6. CASE UNCHANGED toAgent
  BY <1>1, <1>3, <1>5, <1>6 DEF Quiet, Resting, Standing
<1>7. CASE /\ toAgent' = Append(toAgent, rpc[r].request)
           /\ stream[rpc[r].session] = agentStream
  <2>1. /\ \A i \in DOMAIN toAgent' :
              \/ i \in DOMAIN toAgent /\ toAgent'[i] = toAgent[i] /\ i < Len(toAgent')
              \/ i = Len(toAgent') /\ toAgent'[i].id = c
        /\ toAgent' # <<>> /\ toAgent'[Len(toAgent')].id = c
        /\ toAgent'[Len(toAgent')] = rpc[r].request
        /\ Len(toAgent') \in Nat
    <3>1. toAgent \in Seq(Request)
      BY DEF AgentTypes
    <3> QED BY <1>1, <1>7, <3>1, AddsLast
  <2>2. Quiet
    BY <1>3 DEF Resting
  <2>3. CASE journal[c] # None
    BY <1>1, <1>5, <2>1, <2>2, <2>3 DEF Quiet, Standing
  <2>4. CASE journal[c] = None
    <3>1. StateOf(r).phase = "pending"
      BY <1>1, <1>2, <2>4 DEF Answered
    <3>2. InFlight(s, c)'
      <4>1. /\ rpc' = [rpc EXCEPT ![r].pc = "sent"] /\ StateOf(r)'.phase = "pending"
            /\ rpc \in [Rpc -> RpcState]
        BY <3>1, WriteOutcome DEF Calls
      <4>2. /\ rpc'[r].session = s /\ rpc'[r].owner /\ rpc'[r].pc = "sent"
            /\ rpc'[r].request = rpc[r].request
        BY <1>1, <1>2, <4>1 DEF RpcState
      <4> QED BY <1>1, <4>1, <4>2 DEF InFlight, IdOf
    <3>3. NoAck(Inbox(s), c)
      BY <1>1, <1>3, <2>4, EngagedLive DEF Engaged, Resting
    <3>4. \A i \in DOMAIN toAgent' : i < Len(toAgent') => journal'[toAgent'[i].id] # None
      BY <1>1, <2>1, <2>2 DEF Quiet
    <3>5. stream'[s] = agentStream' /\ journal'[c] = None
      BY <1>1, <1>2, <1>7, <2>4
    <3>6. command'[s][c].request = rpc[r].request
      <4>1. StateOf(r) = command[s][c] /\ StateOf(r) \in CommandState
        BY <1>1, <1>2 DEF StateOf, IdOf, Commands
      <4>2. StateOf(r).request = rpc[r].request
        BY <1>2, <3>1, <4>1 DEF PendingOnLiveBinding, PendingCommands, GateExcludes
      <4>3. command'[s][c] = [StateOf(r) EXCEPT !.on = stream[s]]
        BY <1>1, <1>2 DEF WriteCommand, SetState, IdOf, Commands
      <4> QED BY <4>1, <4>2, <4>3 DEF CommandState
    <3>7. Flying(s, c)'
      BY <1>4, <2>1, <3>2, <3>3, <3>4, <3>5, <3>6 DEF Flying
    <3> QED BY <1>1, <3>7 DEF Standing
  <2> QED BY <2>3, <2>4
<1> QED BY <1>6, <1>7, WriteEffect

\* A session that is live and not fenced after a step stands well with the Agent.
LEMMA AttributedStep ==
    ASSUME Disciplined, OutcomeInductive, CommandIds, Streams, Fifo, Answered,
           Attributed, Cached, [Next]_vars
    PROVE  Attributed'
<1> USE DEF OutcomeInductive, ControlInductive
<1> SUFFICES ASSUME NEW s \in Session, OwnsAgent(s)', ~unreconciled'[s]
             PROVE Standing(s)'
  BY DEF Attributed, Unfenced
<1>1. ~Crash
  BY DEF Crash, Disciplined
<1>2. CASE Register(s)
  BY <1>2, RegisterStanding DEF Standing
<1>3. CASE ~Register(s)
  <2>1. OwnsAgent(s)
    <3>1. ASSUME NEW t \in Session, Register(t) PROVE FALSE
      BY <1>3, <3>1 DEF Register, InstallSession, OwnsAgent
    <3> QED BY <1>1, <3>1, OwnershipStep, NoneAssumption DEF OwnsAgent
  <2>2. ASSUME NEW b \in Stream, NEW c \in Command, Correlates(b, s, c) PROVE Standing(s)'
    BY <2>2, CorrelateStanding DEF Standing
  <2>3. CASE \A b \in Stream, c \in Command : ~Correlates(b, s, c)
    <3>1. context'[s] = context[s] /\ ~unreconciled[s] /\ Standing(s)
      BY <1>1, <1>3, <2>1, <2>3, FenceMoves DEF Attributed, Unfenced
    <3>2. \A c \in Command : InFlight(s, c) =>
             InFlight(s, c)' /\ command'[s][c].request = command[s][c].request
      BY <1>1, <1>3, <2>1, <2>3, InFlightKept
    <3>3. CASE stream'[s] # stream[s]
      BY <1>1, <2>1, <3>1, <3>3, BindingStanding
    <3>4. ASSUME NEW r \in Rpc, WriteCommand(r) PROVE Standing(s)'
      BY <2>1, <3>1, <3>4, WriteStanding
    <3>5. CASE stream'[s] = stream[s]
      <4>1. CASE AgentApplies
        BY <2>1, <3>1, <3>2, <3>5, <4>1, AppliesStanding
      <4>2. CASE AgentAnswersOnly
        BY <2>1, <3>1, <3>2, <3>5, <4>2, AnswersStanding
      <4>3. CASE AgentSendsFrame
        BY <2>1, <3>1, <3>2, <3>5, <4>3, FrameStanding
      <4>4. ASSUME NEW b \in Stream, NEW t \in Session, ConnectStream(b, t)
            PROVE Standing(s)'
        BY <2>1, <3>1, <3>2, <3>5, <4>4, ConnectStanding
      <4>5. CASE /\ ~AgentApplies /\ ~AgentAnswersOnly /\ ~AgentSendsFrame
                 /\ UNCHANGED <<agentContext, journal, agentStream, toAgent>>
        <5>1. /\ Inbox(s) \in Seq(Upstream)
              /\ \/ Inbox(s)' = Inbox(s)
                 \/ /\ Inbox(s) # <<>> /\ Inbox(s)' = Tail(Inbox(s))
                    /\ \A c \in PendingCommands(s) : ~Ack(Head(Inbox(s)), c)
          BY <1>1, <2>1, <2>3, <3>5, <4>5, InboxStep
        <5> QED BY <3>1, <3>2, <3>5, <4>5, <5>1, StandingKept
      <4> QED BY <3>4, <4>1, <4>2, <4>3, <4>4, <4>5, AgentStep
    <3> QED BY <3>3, <3>5
  <2> QED BY <2>2, <2>3
<1> QED BY <1>2, <1>3


----------------------------------------------------------------------------
(* Routing.                                                                *)

\* The frame being routed was sent with the context it is routed under, if it
\* came by the accepted stream and the Agent still uses that.
Routing ==
    \A b \in Stream :
        handler[b] = "routing" /\ stream[boundTo[b]] = b /\ agentStream = b
        => Head(toRelay[b]).active = context[boundTo[b]]

\* A handler that goes on routing keeps its session.
LEMMA BoundKept ==
    ASSUME Inductive, [Next]_vars, NEW b \in Stream,
           handler[b] = "routing", handler'[b] = "routing"
    PROVE  boundTo'[b] = boundTo[b]
<1> USE DEF Inductive, TypeOK
<1>0. [LifecycleNext]_lifecycleVars
  BY StepSimulation
<1>1. ASSUME NEW s \in Session, StartRegister(s) \/ CancelRegister(s) \/ RegisterProceeds(s)
      PROVE UNCHANGED boundTo
  BY <1>1 DEF StartRegister, CancelRegister, RegisterProceeds, RetryRegister, InstallSession
<1>2. ASSUME NEW x \in Stream, NEW s \in Session, OpenStream(x, s)
      PROVE boundTo'[b] = boundTo[b]
  BY <1>2 DEF OpenStream
<1>3. ASSUME NEW x \in Stream, BindStream(x)
      PROVE boundTo'[b] = boundTo[b]
  BY <1>3 DEF BindStream
<1>4. ASSUME NEW x \in Stream, DeleteStream(x)
      PROVE boundTo'[b] = boundTo[b]
  BY <1>4 DEF DeleteStream
<1>5. ASSUME NEW x \in Stream,
             PublishBegin(x) \/ PublishFail(x) \/ PublishOk(x) \/ ActivateStream(x)
             \/ BeginFrame(x) \/ EndFrame(x) \/ StreamEnds(x)
      PROVE UNCHANGED boundTo
  BY <1>5 DEF PublishBegin, PublishFail, PublishOk, ActivateStream, BeginFrame, EndFrame,
              StreamEnds
<1>6. ~Restart
  BY DEF Restart
<1> QED BY <1>0, <1>1, <1>2, <1>3, <1>4, <1>5, <1>6 DEF LifecycleNext, lifecycleVars

\* Its frame stays where it is.
LEMMA FrameStays ==
    ASSUME OutcomeInductive, [Next]_vars, NEW b \in Stream,
           handler[b] = "routing", handler'[b] = "routing"
    PROVE  Head(toRelay'[b]) = Head(toRelay[b])
<1> USE DEF OutcomeInductive, ControlInductive
<1>1. toRelay[b] # <<>> /\ toRelay[b] \in Seq(Upstream)
  BY DEF FrameHeld, AgentTypes
<1>2. ASSUME NEW m \in Upstream, Arrives(m) PROVE Head(toRelay'[b]) = Head(toRelay[b])
  BY <1>1, <1>2, ArrivesIn, HeadKept
<1>3. ~ReceiveAck(b) /\ ~DeclineFrame(b) /\ ~CleanUp(b) /\ ~Crash
  BY DEF ReceiveAck, DeclineFrame, CleanUp, DeleteStream, Crash, Restart
<1>4. ~RouteFrame(b)
  BY DEF RouteFrame, EndFrame, Inductive, TypeOK
<1> QED BY <1>2, <1>3, <1>4, RelayStep, AppliesEffect, AnswersEffect, FrameEffect

\* A frame is admitted under the Agent's context, or one that is ahead of the ACK
\* under the context before it; neither changes while it is routed.
LEMMA RoutingStep ==
    ASSUME Disciplined, OutcomeInductive, CommandIds, Streams, Attributed, Routing,
           [Next]_vars
    PROVE  Routing'
<1> USE DEF OutcomeInductive, ControlInductive
<1> SUFFICES ASSUME NEW b \in Stream, handler'[b] = "routing",
                    stream'[boundTo'[b]] = b, agentStream' = b
             PROVE Head(toRelay'[b]).active = context'[boundTo'[b]]
  BY DEF Routing
<1>0. ~Crash
  BY DEF Crash, Restart
<1>1. CASE handler[b] = "routing"
  <2>1. PICK s \in Session : s = boundTo[b] /\ s = boundTo'[b] /\ OwnsAgent(s)
    BY <1>1, BoundKept DEF Inductive, Handlers, LeaseImpliesOwnership
  <2>2. stream[s] = b
    <3>1. CASE stream'[s] # stream[s]
      <4>1. PICK d \in Stream : stream'[s] = d /\ handler'[d] = "serving"
        BY <1>0, <3>1, BindingStep
      <4> QED BY <2>1, <4>1
    <3> QED BY <2>1, <3>1
  <2>3. agentStream = b
    <3>1. ASSUME NEW d \in Stream, NEW t \in Session, ConnectStream(d, t) PROVE FALSE
      BY <1>1, <3>1 DEF ConnectStream, OpenStream
    <3>2. ASSUME NEW r \in Rpc, WriteCommand(r) PROVE UNCHANGED agentStream
      BY <3>2 DEF WriteCommand
    <3>3. AgentApplies \/ AgentAnswersOnly => UNCHANGED agentStream
      BY AppliesEffect, AnswersEffect
    <3> QED BY <3>1, <3>2, <3>3, AgentStep
  <2>4. ~Register(s)
    BY <2>1, NoneAssumption
    DEF Register, InstallSession, HoldsPrevious, OwnsAgent, Inductive, Registrations
  <2>5. \A d \in Stream, c \in Command : ~Correlates(d, s, c)
    BY <1>1, <2>2 DEF Correlates, ReceiveAck
  <2>6. context'[s] = context[s]
    BY <1>0, <2>4, <2>5, FenceMoves
  <2> QED BY <1>1, <2>1, <2>2, <2>3, <2>6, FrameStays DEF Routing
<1>2. CASE handler[b] # "routing"
  <2>1. AdmitFrame(b)
    BY <1>0, <1>2, HandlerStep
    DEF ConnectStream, OpenStream, UpdateStream, BindStream, Publication, PublishBegin,
        PublishFail, PublishOk, SwapStream, ActivateStream, EndStream, StreamEnds, CleanUp,
        DeleteStream, RouteFrame, EndFrame, Inductive, TypeOK
  <2>2. PICK s \in Session : s = boundTo[b]
    BY <2>1 DEF AdmitFrame, BeginFrame, Inductive, Handlers
  <2>3. /\ Unfenced(s) /\ toRelay[b] # <<>> /\ Head(toRelay[b]).kind = "frame"
        /\ UNCHANGED <<stream, boundTo, context, agentContext, agentStream, toRelay>>
    BY <2>1, <2>2
    DEF AdmitFrame, BeginFrame, MayRoute, Unfenced, Received, controlVars, agentVars
  <2>4. /\ stream[s] = b /\ agentStream = b /\ Inbox(s) = toRelay[b]
        /\ toRelay[b] \in Seq(Upstream)
    BY <2>2, <2>3, NoneAssumption DEF Inbox, AgentTypes
  <2>5. Standing(s) /\ \A c : ~Ack(Head(toRelay[b]), c)
    BY <2>3 DEF Attributed, Ack
  <2>6. Clean(s) => Head(toRelay[b]).active = agentContext
    BY <2>3, <2>4, LeavesCarrying DEF Clean
  <2>7. ASSUME NEW c \in Command, Applied(s, c) PROVE Head(toRelay[b]).active = context[s]
    BY <2>3, <2>4, <2>5, <2>7, LeavesCarrying DEF Applied
  <2>8. Head(toRelay[b]).active = context[s]
    BY <2>5, <2>6, <2>7 DEF Standing, Resting, Flying, Refused
  <2> QED BY <2>2, <2>3, <2>8
<1> QED BY <1>1, <1>2

----------------------------------------------------------------------------
(* Reservations.  An authoritative clear is admitted to a session that is  *)
(* not fenced only under a reservation it finds there, and no call can     *)
(* still have the command of such a reservation applied for the first time.*)

\* The Agent has applied c, or no call can have it written any more.
Spent(c) == journal[c] # None \/ ~Live(c)

\* With calls that are never repeated, the call that reserved is the one past the
\* gate, or it has ended.
Reserved ==
    \A s \in Session : emptyCommand[s] # None =>
        /\ emptyCommand[s] \in issued
        /\ Unfenced(s) => Spent(emptyCommand[s])
        /\ Api = "once" /\ OwnsAgent(s) =>
              \A r \in Rpc : Engaged(r) /\ IdOf(r) = emptyCommand[s] => r \in GateHolders(s)

\* So is the reservation in the reconnect cache, whose call has ended.
ReservedInCache ==
    reconnect # None /\ reconnect.emptyCommand # None =>
        /\ reconnect.emptyCommand \in issued
        /\ ~reconnect.unreconciled => Spent(reconnect.emptyCommand)
        /\ Api = "once" => \A r \in Rpc : Engaged(r) => IdOf(r) # reconnect.emptyCommand

\* The call is past the gate with an authoritative clear.
Reconciling(r) ==
    Engaged(r) /\ rpc[r].pc # "gate" /\ rpc[r].request.kind = "reset"

\* In a session that is not fenced, it carries what the Agent has applied.
Reconciled ==
    \A r \in Rpc : Reconciling(r) /\ Unfenced(rpc[r].session) => journal[IdOf(r)] # None

Reservations == Reserved /\ ReservedInCache /\ Reconciled

\* What is spent stays spent.
LEMMA SpentStays ==
    ASSUME Disciplined, OutcomeInductive, [Next]_vars, NEW c \in Command, Spent(c)
    PROVE  Spent(c)'
  BY LiveShrinks, JournalGrows DEF OutcomeInductive, Spent

\* A call that may still have its command applied was there before, or is new.
LEMMA EngagedBefore ==
    ASSUME OutcomeInductive, [Next]_vars, NEW r \in Rpc, Engaged(r)',
           \A q \in Request : ~Call(r, q)
    PROVE  /\ Engaged(r) /\ Active(r)
           /\ rpc'[r].session = rpc[r].session /\ rpc'[r].request = rpc[r].request
           /\ IdOf(r)' = IdOf(r)
           /\ rpc[r].pc = "gate" => rpc'[r] = rpc[r] \/ AcquireGate(r)
           /\ rpc[r].pc # "gate" => rpc'[r].pc # "gate"
<1> USE DEF OutcomeInductive, ControlInductive
<1>1. Active(r)' /\ ~Crash
  BY DEF Engaged, Active, Crash, IdleRpc
<1>2. /\ Active(r)
      /\ rpc'[r].session = rpc[r].session /\ rpc'[r].request = rpc[r].request
      /\ \/ rpc'[r] = rpc[r]
         \/ AcquireGate(r) /\ rpc[r].pc = "gate" /\ rpc'[r].pc = "admit"
         \/ Admit(r) /\ rpc[r].pc = "admit" /\ rpc'[r].pc \in {"send", "await"}
         \/ FailUnsent(r) /\ rpc[r].pc = "send" /\ rpc'[r].pc = "await"
         \/ WriteCommand(r) /\ rpc[r].pc = "send" /\ rpc'[r].pc = "sent"
         \/ \E failed \in BOOLEAN :
               WriteReturns(r, failed) /\ rpc[r].pc = "sent" /\ rpc'[r].pc = "await"
  BY <1>1, CallProgress
<1>3. Engaged(r)
  <2>1. CASE rpc'[r] = rpc[r]
    BY <1>1, <2>1, StateKept DEF Engaged
  <2>2. ASSUME NEW failed \in BOOLEAN, WriteReturns(r, failed), rpc[r].pc = "sent",
               rpc'[r].pc = "await"
        PROVE Engaged(r)
    BY <2>2, ReturnOutcome DEF Engaged
  <2> QED BY <1>2, <2>1, <2>2 DEF Engaged
<1> QED BY <1>2, <1>3 DEF IdOf

\* Who changes the reservation of a session.
LEMMA ReservationStep ==
    ASSUME ControlInductive, ControlTypes, [Next]_vars, NEW s \in Session,
           emptyCommand'[s] # emptyCommand[s], emptyCommand'[s] # None, ~Register(s)
    PROVE  \E p \in Rpc :
              /\ AcquireGate(p) /\ rpc[p].session = s /\ rpc'[p].session = s
              /\ rpc'[p].pc = "admit" /\ rpc'[p].request = rpc[p].request
              /\ emptyCommand'[s] = IdOf(p)
              /\ unreconciled'[s] /\ UNCHANGED issued
<1> USE DEF ControlInductive, ControlTypes
<1>1. ASSUME NEW t \in Session,
             BeginRegister(t) \/ AbandonRegister(t) \/ RestartRegister(t) \/ Register(t)
      PROVE FALSE
  BY <1>1 DEF BeginRegister, AbandonRegister, RestartRegister, Register, controlVars
<1>2. ASSUME NEW b \in Stream, StreamStep(b), ~ReceiveAck(b) PROVE FALSE
  BY <1>2 DEF StreamStep, UpdateStream, Publication, SwapStream, EndStream, CleanUp,
              DeclineFrame, AdmitFrame, RouteFrame, controlVars
<1>3. ASSUME NEW b \in Stream, ReceiveAck(b) PROVE FALSE
  BY <1>3 DEF ReceiveAck, CorrelateAck
<1>4. ASSUME NEW r \in Rpc, GiveUp(r) \/ FailUnsent(r) \/ WriteCommand(r) \/ Deadline(r)
                            \/ \E failed \in BOOLEAN : WriteReturns(r, failed)
      PROVE FALSE
  BY <1>4 DEF GiveUp, FailUnsent, WriteCommand, WriteReturns, Deadline
<1>5. ASSUME NEW r \in Rpc, Finish(r) PROVE FALSE
  BY <1>5 DEF Finish
<1>6. ASSUME NEW r \in Rpc, Admit(r) \/ Return(r) PROVE FALSE
  BY <1>5, <1>6 DEF Admit, RefuseAdmission, AttachToKnown, OwnAttempt, Return
<1>7. ASSUME NEW r \in Rpc, NEW q \in Request, Call(r, q) PROVE FALSE
  BY <1>7 DEF Call
<1>8. ~(\/ ForgetSnapshot \/ Crash \/ AgentApplies \/ AgentAnswersOnly \/ AgentSendsFrame
        \/ UNCHANGED vars)
  BY DEF ForgetSnapshot, Crash, AgentApplies, AgentAnswersOnly, AgentSendsFrame, vars,
         controlVars
<1>9. ASSUME NEW b \in Stream, NEW t \in Session, ConnectStream(b, t) PROVE FALSE
  BY <1>9 DEF ConnectStream, controlVars
<1>10. PICK p \in Rpc : AcquireGate(p)
  BY <1>1, <1>2, <1>3, <1>4, <1>6, <1>7, <1>8, <1>9 DEF Next, RpcStep
<1>11. /\ rpc' = [rpc EXCEPT ![p].pc = "admit"] /\ UNCHANGED <<unreconciled, issued>>
       /\ rpc[p].request.kind = "reset" => MayReserve(rpc[p].session, IdOf(p))
       /\ emptyCommand' = [emptyCommand EXCEPT ![rpc[p].session] =
                             Reservation(rpc[p].session, rpc[p].request)]
       /\ rpc[p].pc = "gate" /\ rpc \in [Rpc -> RpcState]
  BY <1>10 DEF AcquireGate, IdOf, Calls
<1>12. /\ rpc[p].session = s /\ rpc[p].request.kind = "reset"
       /\ emptyCommand'[s] = IdOf(p)
  BY <1>11 DEF Reservation, IdOf
<1>13. unreconciled[s]
  BY <1>11, <1>12 DEF MayReserve
<1> QED BY <1>10, <1>11, <1>12, <1>13 DEF RpcState

\* The ACK that lifts the fence is that of the call past the gate, and the Agent
\* has applied its command.
LEMMA FenceLifts ==
    ASSUME Disciplined, OutcomeInductive, CommandIds, Fifo, [Next]_vars,
           NEW s \in Session, ~Register(s), unreconciled[s], ~unreconciled'[s]
    PROVE  \E p \in GateHolders(s) :
              Engaged(p) /\ Active(p) /\ journal[IdOf(p)] # None
<1> USE DEF OutcomeInductive, ControlInductive
<1>1. ~Crash
  BY DEF Crash, Disciplined
<1>2. PICK b \in Stream, c \in Command : Correlates(b, s, c)
  BY <1>1, FenceMoves
<1>3. /\ c \in PendingCommands(s) /\ AppliedAck(Head(toRelay[b]), c)
      /\ toRelay[b] # <<>> /\ toRelay[b] \in Seq(Upstream)
  BY <1>2, CorrelateEffect DEF AgentTypes
<1>4. journal[c] # None
  BY <1>3, Leaves DEF Fifo
<1>5. PICK p \in GateHolders(s) : rpc[p].owner /\ rpc[p].request = command[s][c].request
  BY <1>3 DEF PendingOnLiveBinding
<1>6. /\ p \in Rpc /\ rpc[p].pc \in {"send", "sent", "await"} /\ rpc[p].session = s
      /\ IdOf(p) = c /\ StateOf(p).phase = "pending"
  BY <1>3, <1>5 DEF GateHolders, Calls, Commands, PendingCommands, IdOf, StateOf
<1> QED BY <1>4, <1>5, <1>6 DEF Engaged, Active

\* What a session that is retired hands on.
LEMMA SnapshotReserves ==
    ASSUME Disciplined, OutcomeInductive, CommandIds, Reserved,
           NEW s \in Session, grpcSession = s, MayRetire(s),
           SnapshotOf(s).emptyCommand # None, UNCHANGED rpc,
           command' = [command EXCEPT ![s] = AbortPending(s)]
    PROVE  /\ SnapshotOf(s).emptyCommand \in issued
           /\ ~Uncertain(s) => Spent(SnapshotOf(s).emptyCommand)
           /\ Api = "once" =>
                 \A r \in Rpc : Engaged(r)' => IdOf(r) # SnapshotOf(s).emptyCommand
<1> USE DEF OutcomeInductive, ControlInductive
<1> DEFINE e == emptyCommand[s]
<1>1. /\ SnapshotOf(s).emptyCommand = e /\ e # None
      /\ Uncertain(s) => e \in PendingCommands(s)
  BY DEF SnapshotOf
<1>2. OwnsAgent(s) /\ s # None
  BY NoneAssumption DEF OwnsAgent, Inductive, Registrations
<1>3. ~Uncertain(s) => Spent(e)
  BY <1>1, <1>2 DEF Uncertain, Unfenced, Reserved
<1>4. ASSUME Api = "once", NEW r \in Rpc, Engaged(r)', IdOf(r) = e PROVE FALSE
  <2>1. \A t \in Session, c \in Command :
           command'[t][c].phase = "pending" => t # s /\ command'[t] = command[t]
    BY AbortCommands
  <2>2. /\ rpc[r].pc \in {"sent", "await"} =>
              rpc[r].session # s /\ StateOf(r).phase = "pending"
        /\ rpc[r].pc # "idle"
    BY <1>4, <2>1, NullsTyped DEF Engaged, StateOf, Calls
  <2>3. Engaged(r) /\ Active(r)
    BY <1>4, <2>2 DEF Engaged, Active
  <2>4. r \in GateHolders(s)
    BY <1>1, <1>2, <1>4, <2>3 DEF Reserved
  <2>5. rpc[r].pc = "admit" /\ rpc[r].session = s
    BY <1>2, <2>2, <2>4 DEF GateHolders, MayRetire, Writing
  <2>6. ~Uncertain(s)
    BY <1>1, <2>5, AdmitsAlone
  <2>7. journal[IdOf(r)] # None
    BY <1>3, <1>4, <2>3, <2>6, EngagedLive DEF Spent
  <2>8. Touched(IdOf(r))
    BY <2>7 DEF Touched
  <2> QED BY <1>4, <2>3, <2>5, <2>8 DEF CommandIds
<1> QED BY <1>1, <1>3, <1>4 DEF Reserved

\* What a session starts with is spent, or it starts behind the fence.
LEMMA RegisterReserves ==
    ASSUME Disciplined, OutcomeInductive, CommandIds, Cached, Reserved, ReservedInCache,
           [Next]_vars, NEW s \in Session, Register(s), emptyCommand'[s] # None
    PROVE  /\ emptyCommand'[s] \in issued
           /\ ~unreconciled'[s] => Spent(emptyCommand'[s])
           /\ Api = "once" => \A r \in Rpc : Engaged(r)' => IdOf(r)' # emptyCommand'[s]
<1> USE DEF OutcomeInductive, ControlInductive
<1>1. /\ unreconciled'[s] = Inherited(s).unreconciled
      /\ emptyCommand'[s] = Inherited(s).emptyCommand
      /\ UNCHANGED rpc
  BY DEF Register, ControlTypes
<1>2. CASE ~Auth \/ (previous[s] = None /\ reconnect = None)
  BY <1>1, <1>2 DEF Inherited, FreshContext
<1>3. CASE Auth /\ previous[s] # None
  <2>1. PICK p \in Session : p = previous[s]
    BY <1>3 DEF Inductive, TypeOK
  <2>2. /\ grpcSession = p /\ MayRetire(p)
        /\ emptyCommand'[s] = SnapshotOf(p).emptyCommand
        /\ unreconciled'[s] = Uncertain(p)
        /\ command' = [command EXCEPT ![p] = AbortPending(p)]
    BY <1>1, <1>3, <2>1 DEF Register, InstallSession, Inherited, SnapshotOf
  <2> QED BY <1>1, <2>2, SnapshotReserves DEF IdOf
<1>4. CASE Auth /\ previous[s] = None /\ reconnect # None
  <2>1. Inherited(s) = reconnect /\ UNCHANGED command
    BY <1>4 DEF Inherited, Register
  <2>2. \A r \in Rpc : Engaged(r)' => Engaged(r)
    BY <1>1, <2>1 DEF Engaged, StateOf
  <2> QED BY <1>1, <1>4, <2>1, <2>2 DEF ReservedInCache, IdOf
<1> QED BY <1>2, <1>3, <1>4

\* Every step keeps the reservations so.
LEMMA ReservedStep ==
    ASSUME Disciplined, OutcomeInductive, CommandIds, CommandIds', Fifo, Cached,
           Reserved, ReservedInCache, [Next]_vars
    PROVE  Reserved'
<1> USE DEF OutcomeInductive, ControlInductive
<1> SUFFICES ASSUME NEW s \in Session, emptyCommand'[s] # None
             PROVE /\ emptyCommand'[s] \in issued'
                   /\ Unfenced(s)' => Spent(emptyCommand[s])'
                   /\ Api = "once" /\ OwnsAgent(s)' =>
                         \A r \in Rpc : Engaged(r)' /\ IdOf(r)' = emptyCommand'[s]
                                        => r \in GateHolders(s)'
  BY DEF Reserved
<1>0. ~Crash
  BY DEF Crash
<1>1. CASE Register(s)
  <2>1. emptyCommand'[s] \in Command /\ emptyCommand'[s] \in issued'
    BY <1>1, RegisterReserves, IssuedGrows DEF ControlTypes
  <2>2. Unfenced(s)' => Spent(emptyCommand[s])'
    <3> SUFFICES ASSUME ~unreconciled'[s] PROVE Spent(emptyCommand[s])'
      BY DEF Unfenced
    <3>1. PICK e \in Command : e = emptyCommand'[s]
      BY <2>1
    <3>2. Spent(e)'
      BY <1>1, <3>1, RegisterReserves, SpentStays
    <3> QED BY <3>1, <3>2 DEF Spent, Live, Engaged, IdOf, StateOf
  <2> QED BY <1>1, <2>1, <2>2, RegisterReserves
<1>2. CASE ~Register(s) /\ emptyCommand'[s] # emptyCommand[s]
  <2>1. PICK p \in Rpc :
           /\ AcquireGate(p) /\ rpc[p].session = s /\ rpc'[p].session = s
           /\ rpc'[p].pc = "admit" /\ rpc'[p].request = rpc[p].request
           /\ emptyCommand'[s] = IdOf(p)
           /\ unreconciled'[s] /\ UNCHANGED issued
    BY <1>2, ReservationStep
  <2>2. emptyCommand'[s] \in issued' /\ p \in GateHolders(s)' /\ Active(p)'
        /\ IdOf(p)' = emptyCommand'[s]
    BY <2>1 DEF CallStates, Active, GateHolders, AcquireGate, IdOf
  <2>3. ASSUME Api = "once", NEW r \in Rpc, Engaged(r)', IdOf(r)' = emptyCommand'[s]
        PROVE r = p
    BY <2>2, <2>3 DEF CommandIds, Engaged, Active
  <2> QED BY <2>1, <2>2, <2>3 DEF Unfenced
<1>3. CASE ~Register(s) /\ emptyCommand'[s] = emptyCommand[s]
  <2>1. PICK e \in Command : e = emptyCommand[s] /\ e \in issued /\ e \in issued'
    BY <1>3, IssuedGrows DEF Reserved, ControlTypes
  <2>2. OwnsAgent(s)' => OwnsAgent(s)
    <3>1. ASSUME NEW t \in Session, Register(t), OwnsAgent(s)' PROVE FALSE
      BY <1>3, <3>1 DEF Register, InstallSession, OwnsAgent
    <3> QED BY <1>0, <3>1, OwnershipStep, NoneAssumption DEF OwnsAgent
  <2>3. ASSUME Unfenced(s)' PROVE Spent(e)'
    <3>1. CASE ~unreconciled[s]
      BY <1>3, <2>1, <2>2, <2>3, <3>1, SpentStays DEF Unfenced, Reserved
    <3>2. CASE unreconciled[s]
      <4>1. PICK p \in GateHolders(s) : Engaged(p) /\ Active(p) /\ journal[IdOf(p)] # None
        BY <1>3, <2>3, <3>2, FenceLifts DEF Unfenced
      <4>2. p \in Rpc /\ IdOf(p) \in issued
        BY <4>1 DEF GateHolders, CallStates
      <4>3. ASSUME IdOf(p) # e, Live(e) PROVE FALSE
        <5>1. CASE Api = "serial"
          <6>1. IdOf(p) <= e /\ e <= IdOf(p)
            BY <2>1, <4>1, <4>2, <4>3, <5>1 DEF Live, CommandIds
          <6>2. IdOf(p) \in Nat /\ e \in Nat
            BY <2>1, <4>2, RequestAssumption DEF ControlTypes, Command
          <6> QED BY <4>3, <6>1, <6>2
        <5>2. CASE Api # "serial"
          <6>1. PICK r \in Rpc : Engaged(r) /\ IdOf(r) = e
            BY <2>1, <4>3, <5>2 DEF Live
          <6>2. Api = "once" /\ OwnsAgent(s)
            BY <2>2, <2>3, <5>2, ConfigAssumption DEF Disciplined, Unfenced
          <6>3. r \in GateHolders(s)
            BY <1>3, <2>1, <6>1, <6>2 DEF Reserved
          <6> QED BY <4>1, <4>3, <6>1, <6>3 DEF GateExcludes
        <5> QED BY <5>1, <5>2
      <4>4. Spent(e)
        BY <4>1, <4>3 DEF Spent
      <4> QED BY <4>4, SpentStays
    <3> QED BY <3>1, <3>2
  <2>4. Unfenced(s)' => Spent(emptyCommand[s])'
    BY <1>3, <2>1, <2>3 DEF Spent, Live, Engaged, IdOf, StateOf
  <2>5. ASSUME Api = "once", OwnsAgent(s)', NEW r \in Rpc, Engaged(r)', IdOf(r)' = e
        PROVE r \in GateHolders(s)'
    <3>1. ASSUME NEW q \in Request, Call(r, q) PROVE FALSE
      <4>1. rpc'[r].request = q /\ q.id \notin issued
        BY <2>5, <3>1 DEF Call, MayIssue, Calls
      <4> QED BY <2>1, <2>5, <4>1 DEF IdOf
    <3>2. /\ Engaged(r) /\ IdOf(r) = e /\ rpc'[r].session = rpc[r].session
          /\ rpc[r].pc # "gate" => rpc'[r].pc # "gate"
      BY <2>5, <3>1, EngagedBefore
    <3>3. r \in GateHolders(s)
      BY <1>3, <2>1, <2>2, <2>5, <3>2 DEF Reserved
    <3> QED BY <2>5, <3>2, <3>3 DEF GateHolders, Engaged
  <2> QED BY <1>3, <2>1, <2>4, <2>5
<1> QED BY <1>1, <1>2, <1>3

\* And the one in the reconnect cache.
LEMMA ReservedInCacheStep ==
    ASSUME Disciplined, OutcomeInductive, CommandIds, Reserved, ReservedInCache,
           [Next]_vars
    PROVE  ReservedInCache'
<1> USE DEF OutcomeInductive, ControlInductive
<1> SUFFICES ASSUME reconnect' # None, reconnect'.emptyCommand # None
             PROVE /\ reconnect'.emptyCommand \in issued'
                   /\ ~reconnect'.unreconciled => Spent(reconnect.emptyCommand)'
                   /\ Api = "once" =>
                         \A r \in Rpc : Engaged(r)' => IdOf(r)' # reconnect'.emptyCommand
  BY DEF ReservedInCache
<1>1. CASE reconnect' = reconnect
  <2>1. PICK e \in Command : e = reconnect.emptyCommand /\ e \in issued /\ e \in issued'
    BY <1>1, IssuedGrows DEF ReservedInCache, ControlTypes
  <2>2. ~reconnect.unreconciled => Spent(e)'
    BY <1>1, <2>1, SpentStays DEF ReservedInCache
  <2>3. ASSUME Api = "once", NEW r \in Rpc, Engaged(r)', IdOf(r)' = e PROVE FALSE
    <3>1. ASSUME NEW q \in Request, Call(r, q) PROVE FALSE
      <4>1. rpc'[r].request = q /\ q.id \notin issued
        BY <2>3, <3>1 DEF Call, MayIssue, Calls
      <4> QED BY <2>1, <2>3, <4>1 DEF IdOf
    <3>2. Engaged(r) /\ IdOf(r) = e
      BY <2>3, <3>1, EngagedBefore
    <3> QED BY <1>1, <2>1, <2>3, <3>2 DEF ReservedInCache
  <2>4. ~reconnect'.unreconciled => Spent(reconnect.emptyCommand)'
    BY <1>1, <2>1, <2>2 DEF Spent, Live, Engaged, IdOf, StateOf
  <2> QED BY <1>1, <2>1, <2>3, <2>4
<1>2. CASE reconnect' # reconnect
  <2>1. PICK b \in Stream : CleanUp(b)
    BY <1>2, ReconnectStep
  <2>2. PICK s \in Session : s = boundTo[b]
    BY <2>1 DEF CleanUp, DeleteStream, Inductive, Handlers
  <2>3. /\ reconnect' = SnapshotOf(s) /\ MayRetire(s) /\ grpcSession = s
        /\ command' = [command EXCEPT ![s] = AbortPending(s)]
        /\ UNCHANGED <<rpc, issued>>
    BY <1>2, <2>1, <2>2 DEF CleanUp, DeleteStream
  <2>4. /\ reconnect'.emptyCommand \in issued
        /\ ~reconnect'.unreconciled => Spent(reconnect'.emptyCommand)
        /\ Api = "once" =>
              \A r \in Rpc : Engaged(r)' => IdOf(r) # reconnect'.emptyCommand
    <3>1. reconnect'.unreconciled = Uncertain(s)
      BY <2>3 DEF SnapshotOf
    <3> QED BY <2>3, <3>1, SnapshotReserves
  <2>5. PICK e \in Command : e = reconnect'.emptyCommand
    BY <2>4 DEF ControlTypes
  <2>6. ~reconnect'.unreconciled => Spent(e)'
    BY <2>4, <2>5, SpentStays
  <2>7. ~reconnect'.unreconciled => Spent(reconnect.emptyCommand)'
    BY <2>5, <2>6 DEF Spent, Live, Engaged, IdOf, StateOf
  <2> QED BY <2>3, <2>4, <2>7 DEF IdOf
<1> QED BY <1>1, <1>2

\* A call that carries an authoritative clear in an open session found its own
\* reservation, or its ACK has opened the session.
LEMMA ReconciledStep ==
    ASSUME Disciplined, OutcomeInductive, CommandIds, Fifo, Reserved, Reconciled,
           [Next]_vars
    PROVE  Reconciled'
<1> USE DEF OutcomeInductive, ControlInductive
<1> SUFFICES ASSUME NEW r \in Rpc, Engaged(r)', rpc'[r].pc # "gate",
                    rpc'[r].request.kind = "reset", Unfenced(rpc[r].session)'
             PROVE journal'[IdOf(r)'] # None
  BY DEF Reconciled, Reconciling
<1>0. ~Crash
  BY DEF Crash, Engaged, IdleRpc
<1>1. \A q \in Request : ~Call(r, q)
  BY DEF Call, Calls
<1>2. /\ Engaged(r) /\ Active(r)
      /\ rpc'[r].session = rpc[r].session /\ rpc'[r].request = rpc[r].request
      /\ IdOf(r)' = IdOf(r)
      /\ rpc[r].pc = "gate" => AcquireGate(r)
  BY <1>1, EngagedBefore
<1>3. PICK s \in Session : s = rpc[r].session
  BY <1>2 DEF Calls, Active
<1>4. OwnsAgent(s)' /\ ~unreconciled'[s]
  BY <1>2, <1>3 DEF Unfenced, OwnsAgent
<1>5. OwnsAgent(s) /\ ~Register(s)
  BY <1>0, <1>2, <1>3, <1>4, OwnedBefore DEF CallStates
<1>6. IdOf(r) \in Command
  BY <1>2, NullsTyped DEF Calls, Active, IdOf
<1>7. journal[IdOf(r)] # None
  <2>1. CASE rpc[r].pc = "gate"
    <3>1. /\ AcquireGate(r) /\ UNCHANGED unreconciled /\ rpc'[r] # IdleRpc
          /\ rpc[r].request.kind = "reset"
      BY <1>2, <2>1 DEF AcquireGate, Engaged, IdleRpc
    <3>2. MayReserve(s, IdOf(r)) /\ ~unreconciled[s]
      BY <1>3, <1>4, <3>1 DEF AcquireGate, IdOf, Calls
    <3>3. emptyCommand[s] = IdOf(r) /\ emptyCommand[s] # None
      BY <3>2 DEF MayReserve
    <3>4. Spent(IdOf(r))
      BY <1>5, <3>2, <3>3 DEF Reserved, Unfenced
    <3> QED BY <1>2, <3>4, EngagedLive DEF Spent
  <2>2. CASE rpc[r].pc # "gate" /\ ~unreconciled[s]
    BY <1>2, <1>3, <1>5, <2>2 DEF Reconciled, Reconciling, Unfenced
  <2>3. CASE rpc[r].pc # "gate" /\ unreconciled[s]
    <3>1. PICK p \in GateHolders(s) : Engaged(p) /\ Active(p) /\ journal[IdOf(p)] # None
      BY <1>4, <1>5, <2>3, FenceLifts
    <3>2. r \in GateHolders(s)
      BY <1>2, <1>3, <2>3 DEF Engaged, GateHolders
    <3> QED BY <3>1, <3>2 DEF GateExcludes
  <2> QED BY <2>1, <2>2, <2>3
<1> QED BY <1>2, <1>6, <1>7, JournalGrows

----------------------------------------------------------------------------
(* The theorems.                                                           *)

Tracked ==
    CommandIds /\ Streams /\ Fifo /\ Answered /\ Attributed /\ Cached /\ Routing

AttributionInductive == OutcomeInductive /\ (Disciplined => Tracked)

\* Nothing is on its way at the start, and every session is fenced.
LEMMA AttributionInit == Init => AttributionInductive
<1> SUFFICES ASSUME Init, Disciplined PROVE Tracked
  BY OutcomeInit DEF AttributionInductive
<1>1. \A c, f : NoAck(<<>>, c) /\ NoAppliedAck(<<>>, c) /\ AcksReport(<<>>, c, f)
  BY DEF NoAck, NoAppliedAck, AcksReport
<1>2. CommandIds /\ Answered
  <2>1. \A r \in Rpc : rpc[r].pc = "idle"
    BY DEF Init, IdleRpc
  <2>2. \A c \in Command : ~Touched(c)
    BY <1>1 DEF Init, Touched
  <2> QED BY <2>1, <2>2 DEF CommandIds, Answered, Active
<1>3. Streams /\ Routing
  BY <1>1, NoneAssumption DEF Init, LifecycleInit, Streams, Routing, Fresh
<1>4. Fifo
  BY <1>1 DEF Init, Fifo, Quiet
<1>5. Attributed /\ Cached
  BY DEF Init, Disciplined, Attributed, Unfenced, Cached
<1> QED BY <1>2, <1>3, <1>4, <1>5 DEF Tracked

\* The inductive invariant: a session that is not fenced, and the reconnect cache,
\* account for all that is on its way to and from the Agent.
THEOREM AttributionInvariant == Spec => []AttributionInductive
<1>1. ASSUME AttributionInductive, [Next]_vars PROVE Disciplined => Tracked'
  <2> SUFFICES ASSUME Disciplined PROVE Tracked'
    OBVIOUS
  <2>1. OutcomeInductive /\ Tracked
    BY <1>1 DEF AttributionInductive
  <2> QED BY <1>1, <2>1, CommandIdsStep, StreamsStep, FifoStep, AnsweredStep,
             AttributedStep, CachedStep, RoutingStep DEF Tracked
<1>2. AttributionInductive /\ [Next]_vars /\ OutcomeInductive' => AttributionInductive'
  BY <1>1 DEF AttributionInductive, Disciplined
<1> QED BY AttributionInit, OutcomeInvariant, <1>2, PTL DEF Spec

\* Attribution: with callers that keep to command IDs, the context a live session
\* stamps on telemetry is the Agent's whenever the session is not fenced and awaits
\* no ACK, and so is a reconciled snapshot in the reconnect cache: whatever timed
\* out, was lost, replaced, reconnected or restarted has fenced the session, or
\* changed nothing.
THEOREM Attribution ==
    ASSUME Api # "free" PROVE Spec => []AttributionMatchesAgent
<1>1. AttributionInductive => AttributionMatchesAgent
  <2> SUFFICES ASSUME OutcomeInductive, Disciplined, Tracked PROVE AttributionMatchesAgent
    BY DEF AttributionInductive, Disciplined, AttributionMatchesAgent
  <2>1. ASSUME NEW s \in Session, Settled(s) PROVE context[s] = agentContext
    <3>1. Standing(s) /\ PendingCommands(s) = {}
      BY <2>1 DEF Settled, Tracked, Attributed, Unfenced
    <3>2. \A c \in Command : ~InFlight(s, c)
      BY <3>1, InFlightFacts DEF Tracked
    <3> QED BY <3>1, <3>2 DEF Standing, Resting, Flying, Refused, Applied
  <2> QED BY <2>1 DEF AttributionMatchesAgent, Tracked, Cached
<1> QED BY AttributionInvariant, <1>1, PTL

\* With callers that keep to command IDs, a frame from the accepted stream the Agent
\* uses is routed under the context the Agent had when it sent the frame, although
\* routing reads the context after the reconciliation check.
THEOREM FrameContext ==
    ASSUME Api # "free" PROVE Spec => FrameKeepsContext
<1> DEFINE Keeps ==
      \A b \in Stream :
          /\ Control
          /\ handler[b] = "routing" /\ handler'[b] = "serving"
          /\ stream[boundTo[b]] = b /\ agentStream = b
          => Received(b).active = context[boundTo[b]]
<1>1. AttributionInductive => Keeps
  BY DEF AttributionInductive, Disciplined, Tracked, Routing, Received
<1> QED BY AttributionInvariant, <1>1, PTL DEF FrameKeepsContext

ReservationInductive == AttributionInductive /\ (Disciplined => Reservations)

\* The inductive invariant of the reservations: whoever may still deliver an
\* authoritative clear in a session that is not fenced delivers what is applied.
THEOREM ReservationInvariant == Spec => []ReservationInductive
<1>1. Init => Reservations
  <2>1. \A s \in Session : Init => emptyCommand[s] = None
    BY DEF Init
  <2>2. \A r \in Rpc : Init => ~Reconciling(r)
    BY DEF Init, Reconciling, Engaged, IdleRpc
  <2>3. Init => reconnect = None
    BY DEF Init
  <2> QED BY <2>1, <2>2, <2>3 DEF Reservations, Reserved, ReservedInCache, Reconciled
<1>2. ASSUME ReservationInductive, AttributionInductive', [Next]_vars, Disciplined
      PROVE Reservations'
  <2>1. /\ OutcomeInductive /\ CommandIds /\ Fifo /\ Cached
        /\ Reserved /\ ReservedInCache /\ Reconciled
    BY <1>2 DEF ReservationInductive, AttributionInductive, Tracked, Reservations
  <2>2. CommandIds'
    BY <1>2 DEF AttributionInductive, Disciplined, Tracked
  <2> QED BY <1>2, <2>1, <2>2, ReservedStep, ReservedInCacheStep, ReconciledStep
          DEF Reservations
<1>3. ReservationInductive /\ AttributionInductive' /\ [Next]_vars => ReservationInductive'
  BY <1>2 DEF ReservationInductive, Disciplined
<1>4. Init => ReservationInductive
  BY <1>1, AttributionInit DEF ReservationInductive
<1> QED BY <1>3, <1>4, AttributionInvariant, PTL DEF Spec

\* With callers that keep to command IDs, an authoritative clear that the Agent has
\* not seen takes effect only while no session routes telemetry: it reconciles a
\* gated session and never ends the flight of one in service, whatever was reserved,
\* retried, aborted, inherited or delivered late before.
THEOREM AuthoritativeClear ==
    ASSUME Api # "free" PROVE Spec => AuthoritativeClearOnlyReconciles
<1> DEFINE Reconciles ==
      \A q \in Request :
          Control /\ q.kind = "reset" /\ journal[q.id] = None /\ journal'[q.id] = q
          => \A s \in Session : ~MayRoute(s)
<1>1. ASSUME ReservationInductive, [Next]_vars PROVE Reconciles
  <2> SUFFICES ASSUME NEW q \in Request, Control, q.kind = "reset",
                      journal[q.id] = None, journal'[q.id] = q,
                      NEW s \in Session, MayRoute(s)
               PROVE FALSE
    OBVIOUS
  <2>1. /\ Disciplined /\ OutcomeInductive /\ CommandIds /\ Attributed /\ Reconciled
        /\ Unfenced(s)
    BY <1>1 DEF ReservationInductive, AttributionInductive, Tracked, Reservations,
                Disciplined, MayRoute, Unfenced
  <2> USE DEF OutcomeInductive, ControlInductive
  <2>2. q.id \in Command /\ q # None
    BY NullsTyped, RequestAssumption
  <2>3. journal' # journal
    BY <2>2
  <2>4. AgentApplies
    <3>1. ASSUME NEW r \in Rpc, WriteCommand(r) PROVE UNCHANGED journal
      BY <3>1 DEF WriteCommand
    <3>2. ASSUME NEW b \in Stream, NEW t \in Session, ConnectStream(b, t)
          PROVE UNCHANGED journal
      BY <3>2 DEF ConnectStream
    <3> QED BY <1>1, <2>1, <2>3, <3>1, <3>2, AgentStep, AnswersEffect
  <2>5. /\ toAgent # <<>> /\ q = Head(toAgent)
        /\ toAgent \in Seq(Request) /\ Head(toAgent) = toAgent[1] /\ 1 \in DOMAIN toAgent
        /\ Len(toAgent) \in Nat /\ DOMAIN toAgent = 1 .. Len(toAgent)
    <3>1. PICK p \in Request :
             /\ p = Head(toAgent) /\ toAgent # <<>> /\ journal' = [journal EXCEPT ![p.id] = p]
      BY <2>1, <2>4, AppliesEffect
    <3>2. q = p
      BY <2>1, <2>2, <3>1 DEF AgentTypes
    <3> QED BY <2>1, <3>1, <3>2, TakesFirst DEF AgentTypes
  <2>6. ~Quiet
    BY <2>5 DEF Quiet
  <2>7. PICK c \in Command : Flying(s, c)
    BY <2>1, <2>5, <2>6 DEF Attributed, Standing, Resting, Refused, Applied
  <2>8. q = command[s][c].request /\ c = q.id
    BY <2>5, <2>7 DEF Flying
  <2>9. PICK r \in Rpc : /\ rpc[r].session = s /\ rpc[r].owner
                         /\ rpc[r].pc \in {"sent", "await"} /\ IdOf(r) = c
                         /\ StateOf(r).phase = "pending"
    BY <2>7 DEF Flying, InFlight
  <2>10. rpc[r].request = q
    <3>1. c \in PendingCommands(s) /\ r \in GateHolders(s)
      BY <2>9 DEF PendingCommands, StateOf, IdOf, GateHolders
    <3> QED BY <2>1, <2>8, <3>1 DEF PendingOnLiveBinding, GateExcludes
  <2>11. Reconciling(r)
    BY <2>9, <2>10 DEF Reconciling, Engaged
  <2> QED BY <2>1, <2>8, <2>9, <2>11, <1>1 DEF Reconciled
<1>2. ReservationInductive /\ [Next]_vars => Reconciles
  BY <1>1
<1> QED BY ReservationInvariant, <1>2, PTL DEF AuthoritativeClearOnlyReconciles, Spec
=============================================================================
