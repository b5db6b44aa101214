---------------------- MODULE CompanionCommands_proofs ----------------------
(***************************************************************************)
(* Proofs about CompanionCommands: the types, and that a device which has  *)
(* one connection at a time gets a command at most once per approval, for  *)
(* any commands, requests and failures.                                    *)
(***************************************************************************)
EXTENDS CompanionCommands, TLAPS

(* Of the constants. *)
Setting ==
    /\ Risky \subseteq Command /\ NoCommand \notin Command
    /\ Panel \cap Socket = {}
    /\ MaxAsked \in Nat /\ MaxBreaks \in Nat

(* With two, both may find the same command queued. *)
OneSocket == \A s, t \in Socket : s = t

----------------------------------------------------------------------------
(* What a request and a connection may be at. *)
PanelHolds(u) ==
    /\ work[u].at \in {"idle", "write", "load", "list"}
    /\ work[u].at # "idle" =>
        work[u].to \in {"approval_required", "queued", "denied"}
    /\ work[u].at = "write" /\ work[u].cmd \notin Risky =>
        work[u].to = "queued"

SocketHolds(s) ==
    /\ work[s].to \in {"none", "running", "denied", "done"}
    /\ work[s].at = "idle" => work[s].found = {}
    /\ work[s].at = "look" => work[s].to # "running"
    /\ work[s].at = "send" => work[s].to = "running"
    /\ work[s].at \in {"write", "load", "list", "send"} =>
        work[s].cmd \in Command \ work[s].found

HoldInv ==
    /\ \A u \in Panel :
        PanelHolds(u) /\ (work[u].at # "idle" => work[u].cmd \in Command)
    /\ \A s \in Socket : SocketHolds(s)

(* No connection has to do with the command. *)
Unseen(c) ==
    /\ status[c] = "none" /\ sent[c] = 0 /\ c \notin held
    /\ \A s \in Socket : work[s].cmd # c /\ c \notin work[s].found

(* A decision is about a risky command: one that is not is written by the  *)
(* request that creates it, once.                                          *)
CreatedOnce(c) ==
    /\ c \notin made => Unseen(c) /\ \A u \in Panel : work[u].cmd # c
    /\ status[c] = "approval_required" => c \in Risky
    /\ c \notin Risky =>
        \A u \in Panel : work[u].at = "write" /\ work[u].cmd = c =>
            /\ Unseen(c)
            /\ \A v \in Panel :
                work[v].at = "write" /\ work[v].cmd = c => v = u

(* A dispatch that is due, and one that is stored and not yet sent. *)
Due(c) ==
    \/ status[c] = "queued"
    \/ \E s \in Socket :
        \/ c \in work[s].found
        \/ work[s].at = "write" /\ work[s].to = "running" /\ work[s].cmd = c

OnItsWay(c) ==
    \E s \in Socket : /\ work[s].at \in {"load", "list", "send"}
                      /\ work[s].to = "running" /\ work[s].cmd = c

(* Each of the two has an approval of its own left. *)
Covered(c) ==
    /\ sent[c] <= Budget(c)
    /\ Due(c) \/ OnItsWay(c) => sent[c] + 1 <= Budget(c)
    /\ Due(c) /\ OnItsWay(c) => sent[c] + 2 <= Budget(c)

IInv ==
    /\ CommandTypeOK /\ HoldInv
    /\ \A c \in Command : CreatedOnce(c) /\ Covered(c)
----------------------------------------------------------------------------
(* Types. *)

Work == [at : WorkStage, cmd : Command \cup {NoCommand}, to : Status,
         ids : SUBSET Command, left : SUBSET Command, found : SUBSET Command]

LEMMA BeginTyped ==
    ASSUME CommandTypeOK, NEW a \in Actor, NEW c \in Command, NEW to \in Status,
           Begin(a, c, to)
    PROVE  work' \in [Actor -> Work]
<1>1. [Idle EXCEPT !.at = "write", !.cmd = c, !.to = to] \in Work
    BY DEF Idle, Work, WorkStage
<1>2. work \in [Actor -> Work]
    BY DEF CommandTypeOK, Work
<1>3. QED BY <1>1, <1>2 DEF Begin

LEMMA WorkTyped ==
    ASSUME NEW h \in Work, NEW stage \in WorkStage
    PROVE  [h EXCEPT !.at = stage] \in Work
BY DEF Work

(* Every operation keeps the types. *)
LEMMA StepTypes ==
    ASSUME Setting, CommandTypeOK, HoldInv, [CommandNext]_commandVars
    PROVE  CommandTypeOK'
<1>1. CASE UNCHANGED commandVars
    BY <1>1 DEF commandVars, table, bounds, history,
        CommandTypeOK, WorkStage, Status, Setting
<1>2. ASSUME NEW u \in Panel, Create(u) PROVE CommandTypeOK'
  <2>1. PICK c \in Command \ made :
            /\ made' = made \cup {c}
            /\ Begin(u, c, IF c \in Risky THEN "approval_required" ELSE "queued")
    BY <1>2 DEF Create
  <2>2. work' \in [Actor -> Work]
    BY <2>1, BeginTyped DEF Actor, Status
  <2>3. QED
    BY <1>2, <2>1, <2>2 DEF Create, table, bounds, history, CommandTypeOK, Work, Setting
<1>3. ASSUME NEW u \in Panel, Decide(u) PROVE CommandTypeOK'
  <2>1. work' \in [Actor -> Work]
    BY <1>3, BeginTyped DEF Decide, Actor, Status
  <2>2. QED
    BY <1>3, <2>1 DEF Decide, table, bounds, history, CommandTypeOK, Work, Setting
<1>4. ASSUME NEW a \in Actor, WriteValue(a) PROVE CommandTypeOK'
  <2>1. work[a].cmd \in Command /\ work[a].to \in Status
    BY <1>4 DEF WriteValue, At, Actor, HoldInv, SocketHolds, CommandTypeOK
  <2>2. approved' \in [Command -> Nat]
    BY <1>4, <2>1 DEF WriteValue, CommandTypeOK
  <2>3. status' \in [Command -> Status]
    BY <1>4, <2>1 DEF WriteValue, CommandTypeOK
  <2>4. work' \in [Actor -> Work]
    <3>1. work' = [work EXCEPT ![a] = [work[a] EXCEPT !.at = "load"]]
      BY <1>4 DEF WriteValue
    <3>2. work \in [Actor -> Work] /\ work[a] \in Work /\ "load" \in WorkStage
      BY DEF CommandTypeOK, Work, WorkStage
    <3>3. [work[a] EXCEPT !.at = "load"] \in Work
      BY <3>2, WorkTyped
    <3>4. QED
      BY <3>1, <3>2, <3>3
  <2>5. QED
    BY <1>4, <2>2, <2>3, <2>4 DEF WriteValue, bounds, CommandTypeOK, Work
<1>5. ASSUME NEW a \in Actor, LoadIndex(a) PROVE CommandTypeOK'
    BY <1>5 DEF LoadIndex, At, Actor, table, bounds, history,
        CommandTypeOK, WorkStage, Status, Setting
<1>6. ASSUME NEW a \in Actor, StoreIndex(a) PROVE CommandTypeOK'
  <2>1. work[a].cmd \in Command
    BY <1>6 DEF StoreIndex, At, Actor, HoldInv, SocketHolds
  <2>2. work' \in [Actor -> Work]
    BY <1>6 DEF StoreIndex, EndWork, Idle, CommandTypeOK, Work, WorkStage, Status
  <2>3. QED
    BY <1>6, <2>1, <2>2 DEF StoreIndex, bounds, history, CommandTypeOK, Work
<1>7. ASSUME NEW s \in Socket, Pulse(s) PROVE CommandTypeOK'
    BY <1>7 DEF Pulse, Idle, At, Actor, table, bounds, history,
        CommandTypeOK, WorkStage, Status, Setting
<1>8. ASSUME NEW s \in Socket, LookUp(s) PROVE CommandTypeOK'
  <2>1. PICK c \in work[s].left :
            work' = [work EXCEPT ![s].left = @ \ {c},
                        ![s].found = @ \cup {d \in {c} : status[d] = "queued"}]
    BY <1>8 DEF LookUp
  <2>2. c \in Command
    BY <2>1 DEF CommandTypeOK, Actor
  <2>3. work' \in [Actor -> Work]
    <3> DEFINE left == work[s].left \ {c}
               found == work[s].found \cup {d \in {c} : status[d] = "queued"}
    <3>1. work' = [work EXCEPT ![s] = [work[s] EXCEPT !.left = left,
                                                      !.found = found]]
      BY <2>1
    <3>2. work \in [Actor -> Work] /\ s \in Actor
      BY DEF CommandTypeOK, Work, Actor
    <3>3. work[s] \in Work
      BY <3>2
    <3>4. left \in SUBSET Command /\ found \in SUBSET Command
      BY <2>2, <3>3 DEF Work
    <3> HIDE DEF left, found
    <3>5. [work[s] EXCEPT !.left = left, !.found = found] \in Work
      BY <3>3, <3>4 DEF Work
    <3>6. QED
      BY <3>1, <3>2, <3>5
  <2>4. QED
    BY <1>8, <2>3 DEF LookUp, table, bounds, history, CommandTypeOK, Work
<1>9. ASSUME NEW s \in Socket, Take(s) PROVE CommandTypeOK'
  <2>1. ASSUME EndWork(s) PROVE work' \in [Actor -> Work]
    BY <2>1 DEF EndWork, Idle, CommandTypeOK, Work, WorkStage, Status
  <2>2. ASSUME NEW c \in work[s].found, NEW to \in {"running", "denied"},
               work' = [work EXCEPT ![s].at = "write", ![s].cmd = c,
                            ![s].to = to, ![s].found = @ \ {c}]
        PROVE  work' \in [Actor -> Work]
    <3>1. c \in Command /\ to \in Status
      BY DEF CommandTypeOK, Actor, Status
    <3>2. QED BY <2>2, <3>1 DEF CommandTypeOK, Work, WorkStage, Actor
  <2>3. work' \in [Actor -> Work]
    BY <1>9, <2>1, <2>2 DEF Take
  <2>4. QED
    BY <1>9, <2>3 DEF Take, table, bounds, history, CommandTypeOK, Work
<1>10. ASSUME NEW s \in Socket, Send(s) PROVE CommandTypeOK'
  <2>1. work[s].cmd \in Command
    BY <1>10 DEF Send, At, HoldInv, SocketHolds
  <2>2. work' \in [Actor -> Work]
    BY <1>10 DEF Send, EndWork, Idle, CommandTypeOK, Work, WorkStage, Status
  <2>3. sent' \in [Command -> Nat]
    BY <1>10, <2>1 DEF Send, CommandTypeOK
  <2>4. QED
    BY <1>10, <2>1, <2>2, <2>3 DEF Send, table, bounds, CommandTypeOK, Work
<1>11. ASSUME NEW s \in Socket, Report(s) PROVE CommandTypeOK'
  <2>1. work' \in [Actor -> Work]
    BY <1>11, BeginTyped DEF Report, Actor, Status, CommandTypeOK
  <2>2. QED
    BY <1>11, <2>1 DEF Report, table, bounds, history, CommandTypeOK, Work
<1>12. ASSUME NEW a \in Actor, BreakOff(a) PROVE CommandTypeOK'
    BY <1>12 DEF BreakOff, EndWork, Idle, At, Actor, table, bounds, history,
        CommandTypeOK, WorkStage, Status, Setting
<1>13. QED
    BY <1>1, <1>2, <1>3, <1>4, <1>5, <1>6, <1>7, <1>8, <1>9, <1>10, <1>11,
       <1>12 DEF CommandNext, WriteStep, SocketStep, Actor

(* Every operation holds what it should. *)
LEMMA StepHolds ==
    ASSUME Setting, CommandTypeOK, HoldInv,
           \A c \in Command : CreatedOnce(c), [CommandNext]_commandVars
    PROVE  HoldInv'
<1>1. CASE UNCHANGED commandVars
    BY <1>1 DEF commandVars, table, bounds, history,
        CommandTypeOK, Setting, HoldInv, PanelHolds, SocketHolds
<1>2. ASSUME NEW u \in Panel, Create(u) PROVE HoldInv'
    BY <1>2 DEF Create, Begin, Idle, At, Actor, table, bounds, history,
        CommandTypeOK, Setting, HoldInv, PanelHolds, SocketHolds
<1>3. ASSUME NEW u \in Panel, Decide(u) PROVE HoldInv'
  <2>1. PICK c \in Command, to \in {"queued", "denied"} :
            status[c] = "approval_required" /\ Begin(u, c, to)
    BY <1>3 DEF Decide
  <2>2. c \in Risky
    BY <2>1 DEF CreatedOnce
  <2>3. QED
    BY <2>1, <2>2 DEF Begin, Idle, Actor,
        CommandTypeOK, Setting, HoldInv, PanelHolds, SocketHolds
<1>4. ASSUME NEW a \in Actor, WriteValue(a) PROVE HoldInv'
    BY <1>4 DEF WriteValue, At, Actor, table, bounds, history,
        CommandTypeOK, Setting, HoldInv, PanelHolds, SocketHolds
<1>5. ASSUME NEW a \in Actor, LoadIndex(a) PROVE HoldInv'
    BY <1>5 DEF LoadIndex, At, Actor, table, bounds, history,
        CommandTypeOK, Setting, HoldInv, PanelHolds, SocketHolds
<1>6. ASSUME NEW a \in Actor, StoreIndex(a) PROVE HoldInv'
    BY <1>6 DEF StoreIndex, Refuses, EndWork, Idle, At, Actor, table, bounds, history,
        CommandTypeOK, Setting, HoldInv, PanelHolds, SocketHolds
<1>7. ASSUME NEW s \in Socket, Pulse(s) PROVE HoldInv'
    BY <1>7 DEF Pulse, Idle, At, Actor, table, bounds, history,
        CommandTypeOK, Setting, HoldInv, PanelHolds, SocketHolds
<1>8. ASSUME NEW s \in Socket, LookUp(s) PROVE HoldInv'
  <2>1. /\ work'[s].at = "look" /\ work[s].at = "look"
        /\ work'[s].to = work[s].to
        /\ \A a \in Actor \ {s} : work'[a] = work[a]
    BY <1>8 DEF LookUp, At, Actor, CommandTypeOK
  <2>2. \A u \in Panel : u \in Actor \ {s}
    BY DEF Actor, Setting
  <2>3. QED
    BY <2>1, <2>2 DEF HoldInv, PanelHolds, SocketHolds, Actor
<1>9. ASSUME NEW s \in Socket, Take(s) PROVE HoldInv'
  <2>1. /\ work[s].at = "look"
        /\ UNCHANGED <<status, index, held, made, asked, breaks, approved, sent>>
    BY <1>9 DEF Take, At, table, bounds, history
  <2>2. ASSUME EndWork(s) PROVE HoldInv'
    <3>1. /\ work'[s] = Idle
          /\ \A a \in Actor \ {s} : work'[a] = work[a]
      BY <2>2 DEF EndWork, CommandTypeOK, Actor
    <3>2. QED
      BY <2>1, <3>1 DEF CommandTypeOK, Idle, Actor, Setting, HoldInv, PanelHolds, SocketHolds
  <2>3. ASSUME NEW d \in work[s].found, NEW to \in {"running", "denied"},
               work' = [work EXCEPT ![s].at = "write", ![s].cmd = d,
                            ![s].to = to, ![s].found = @ \ {d}]
        PROVE  HoldInv'
    <3>1. d \in Command
      BY DEF CommandTypeOK, Actor
    <3>2. /\ work'[s].at = "write" /\ work'[s].cmd = d /\ work'[s].to = to
          /\ work'[s].found = work[s].found \ {d}
          /\ \A a \in Actor \ {s} : work'[a] = work[a]
      BY <2>3 DEF CommandTypeOK, Actor
    <3>3. QED
      BY <2>1, <3>1, <3>2 DEF CommandTypeOK, Actor, Setting, HoldInv, PanelHolds, SocketHolds
  <2>4. QED BY <1>9, <2>2, <2>3 DEF Take
<1>10. ASSUME NEW s \in Socket, Send(s) PROVE HoldInv'
    BY <1>10 DEF Send, EndWork, Idle, At, Actor, table, bounds, history,
        CommandTypeOK, Setting, HoldInv, PanelHolds, SocketHolds
<1>11. ASSUME NEW s \in Socket, Report(s) PROVE HoldInv'
    BY <1>11 DEF Report, Begin, Idle, At, Actor, table, bounds, history,
        CommandTypeOK, Setting, HoldInv, PanelHolds, SocketHolds
<1>12. ASSUME NEW a \in Actor, BreakOff(a) PROVE HoldInv'
    BY <1>12 DEF BreakOff, EndWork, Idle, At, Actor, table, bounds, history,
        CommandTypeOK, Setting, HoldInv, PanelHolds, SocketHolds
<1>13. QED
    BY <1>1, <1>2, <1>3, <1>4, <1>5, <1>6, <1>7, <1>8, <1>9, <1>10, <1>11,
       <1>12 DEF CommandNext, WriteStep, SocketStep, Actor

(* A command keeps its one creation. *)
LEMMA StepCreated ==
    ASSUME Setting, CommandTypeOK, HoldInv,
           NEW c \in Command, CreatedOnce(c), [CommandNext]_commandVars
    PROVE  CreatedOnce(c)'
<1>1. CASE UNCHANGED commandVars
    BY <1>1 DEF commandVars, table, bounds, history,
        CommandTypeOK, Setting, HoldInv, PanelHolds,
        SocketHolds, CreatedOnce, Unseen
<1>2. ASSUME NEW u \in Panel, Create(u) PROVE CreatedOnce(c)'
    BY <1>2 DEF Create, Begin, Idle, At, Actor, table, bounds, history,
        CommandTypeOK, Setting, HoldInv, PanelHolds,
        SocketHolds, CreatedOnce, Unseen
<1>3. ASSUME NEW u \in Panel, Decide(u) PROVE CreatedOnce(c)'
    BY <1>3 DEF Decide, Begin, Idle, At, Actor, table, bounds, history,
        CommandTypeOK, Setting, HoldInv, PanelHolds,
        SocketHolds, CreatedOnce, Unseen
<1>4. ASSUME NEW a \in Actor, WriteValue(a) PROVE CreatedOnce(c)'
    BY <1>4 DEF WriteValue, At, Actor, table, bounds, history,
        CommandTypeOK, Setting, HoldInv, PanelHolds,
        SocketHolds, CreatedOnce, Unseen
<1>5. ASSUME NEW a \in Actor, LoadIndex(a) PROVE CreatedOnce(c)'
    BY <1>5 DEF LoadIndex, At, Actor, table, bounds, history,
        CommandTypeOK, Setting, HoldInv, PanelHolds,
        SocketHolds, CreatedOnce, Unseen
<1>6. ASSUME NEW a \in Actor, StoreIndex(a) PROVE CreatedOnce(c)'
    BY <1>6 DEF StoreIndex, Refuses, EndWork, Idle, At, Actor, table, bounds, history,
        CommandTypeOK, Setting, HoldInv, PanelHolds,
        SocketHolds, CreatedOnce, Unseen
<1>7. ASSUME NEW s \in Socket, Pulse(s) PROVE CreatedOnce(c)'
    BY <1>7 DEF Pulse, Idle, At, Actor, table, bounds, history,
        CommandTypeOK, Setting, HoldInv, PanelHolds,
        SocketHolds, CreatedOnce, Unseen
<1>8. ASSUME NEW s \in Socket, LookUp(s) PROVE CreatedOnce(c)'
    BY <1>8 DEF LookUp, At, Actor, table, bounds, history,
        CommandTypeOK, Setting, HoldInv, PanelHolds,
        SocketHolds, CreatedOnce, Unseen
<1>9. ASSUME NEW s \in Socket, Take(s) PROVE CreatedOnce(c)'
  <2>1. /\ work[s].at = "look"
        /\ UNCHANGED <<status, index, held, made, asked, breaks, approved, sent>>
    BY <1>9 DEF Take, At, table, bounds, history
  <2>2. ASSUME EndWork(s) PROVE CreatedOnce(c)'
    <3>1. /\ work'[s] = Idle
          /\ \A a \in Actor \ {s} : work'[a] = work[a]
      BY <2>2 DEF EndWork, CommandTypeOK, Actor
    <3>2. QED
      BY <2>1, <3>1 DEF CommandTypeOK, Idle, Actor, Setting, HoldInv,
        SocketHolds, CreatedOnce, Unseen
  <2>3. ASSUME NEW d \in work[s].found, NEW to \in {"running", "denied"},
               work' = [work EXCEPT ![s].at = "write", ![s].cmd = d,
                            ![s].to = to, ![s].found = @ \ {d}]
        PROVE  CreatedOnce(c)'
    <3>1. d \in Command
      BY DEF CommandTypeOK, Actor
    <3>2. /\ work'[s].at = "write" /\ work'[s].cmd = d /\ work'[s].to = to
          /\ work'[s].found = work[s].found \ {d}
          /\ \A a \in Actor \ {s} : work'[a] = work[a]
      BY <2>3 DEF CommandTypeOK, Actor
    <3>3. QED
      BY <2>1, <3>1, <3>2 DEF CommandTypeOK, Actor, Setting, HoldInv,
        SocketHolds, CreatedOnce, Unseen
  <2>4. QED BY <1>9, <2>2, <2>3 DEF Take
<1>10. ASSUME NEW s \in Socket, Send(s) PROVE CreatedOnce(c)'
    BY <1>10 DEF Send, EndWork, Idle, At, Actor, table, bounds, history,
        CommandTypeOK, Setting, HoldInv, PanelHolds,
        SocketHolds, CreatedOnce, Unseen
<1>11. ASSUME NEW s \in Socket, Report(s) PROVE CreatedOnce(c)'
    BY <1>11 DEF Report, Begin, Idle, At, Actor, table, bounds, history,
        CommandTypeOK, Setting, HoldInv, PanelHolds,
        SocketHolds, CreatedOnce, Unseen
<1>12. ASSUME NEW a \in Actor, BreakOff(a) PROVE CreatedOnce(c)'
    BY <1>12 DEF BreakOff, EndWork, Idle, At, Actor, table, bounds, history,
        CommandTypeOK, Setting, HoldInv, PanelHolds,
        SocketHolds, CreatedOnce, Unseen
<1>13. QED
    BY <1>1, <1>2, <1>3, <1>4, <1>5, <1>6, <1>7, <1>8, <1>9, <1>10, <1>11,
       <1>12 DEF CommandNext, WriteStep, SocketStep, Actor

(* A dispatch keeps its approval. *)
LEMMA StepCovered ==
    ASSUME Setting, OneSocket, CommandTypeOK, HoldInv,
           NEW c \in Command, CreatedOnce(c), Covered(c), [CommandNext]_commandVars
    PROVE  Covered(c)'
<1>1. CASE UNCHANGED commandVars
    BY <1>1 DEF commandVars, table, bounds, history,
        CommandTypeOK, Setting, OneSocket, HoldInv, PanelHolds,
        SocketHolds, CreatedOnce, Unseen, Covered, Due, OnItsWay, Budget
<1>2. ASSUME NEW u \in Panel, Create(u) PROVE Covered(c)'
    BY <1>2 DEF Create, Begin, Idle, At, Actor, table, bounds, history,
        CommandTypeOK, Setting, OneSocket, HoldInv, PanelHolds,
        SocketHolds, CreatedOnce, Unseen, Covered, Due, OnItsWay, Budget
<1>3. ASSUME NEW u \in Panel, Decide(u) PROVE Covered(c)'
    BY <1>3 DEF Decide, Begin, Idle, At, Actor, table, bounds, history,
        CommandTypeOK, Setting, OneSocket, HoldInv, PanelHolds,
        SocketHolds, CreatedOnce, Unseen, Covered, Due, OnItsWay, Budget
<1>4. ASSUME NEW a \in Actor, WriteValue(a) PROVE Covered(c)'
    BY <1>4 DEF WriteValue, At, Actor, table, bounds, history,
        CommandTypeOK, Setting, OneSocket, HoldInv, PanelHolds,
        SocketHolds, CreatedOnce, Unseen, Covered, Due, OnItsWay, Budget
<1>5. ASSUME NEW a \in Actor, LoadIndex(a) PROVE Covered(c)'
    BY <1>5 DEF LoadIndex, At, Actor, table, bounds, history,
        CommandTypeOK, Setting, OneSocket, HoldInv, PanelHolds,
        SocketHolds, CreatedOnce, Unseen, Covered, Due, OnItsWay, Budget
<1>6. ASSUME NEW a \in Actor, StoreIndex(a) PROVE Covered(c)'
    BY <1>6 DEF StoreIndex, Refuses, EndWork, Idle, At, Actor, table, bounds, history,
        CommandTypeOK, Setting, OneSocket, HoldInv, PanelHolds,
        SocketHolds, CreatedOnce, Unseen, Covered, Due, OnItsWay, Budget
<1>7. ASSUME NEW s \in Socket, Pulse(s) PROVE Covered(c)'
    BY <1>7 DEF Pulse, Idle, At, Actor, table, bounds, history,
        CommandTypeOK, Setting, OneSocket, HoldInv, PanelHolds,
        SocketHolds, CreatedOnce, Unseen, Covered, Due, OnItsWay, Budget
<1>8. ASSUME NEW s \in Socket, LookUp(s) PROVE Covered(c)'
    BY <1>8 DEF LookUp, At, Actor, table, bounds, history,
        CommandTypeOK, Setting, OneSocket, HoldInv, PanelHolds,
        SocketHolds, CreatedOnce, Unseen, Covered, Due, OnItsWay, Budget
<1>9. ASSUME NEW s \in Socket, Take(s) PROVE Covered(c)'
  <2>1. /\ work[s].at = "look"
        /\ UNCHANGED <<status, index, held, made, asked, breaks, approved, sent>>
    BY <1>9 DEF Take, At, table, bounds, history
  <2>2. ASSUME EndWork(s) PROVE Covered(c)'
    <3>1. /\ work'[s] = Idle
          /\ \A a \in Actor \ {s} : work'[a] = work[a]
      BY <2>2 DEF EndWork, CommandTypeOK, Actor
    <3>2. QED
      BY <2>1, <3>1 DEF CommandTypeOK, Idle, Actor, Setting, OneSocket, Covered, Due,
        OnItsWay, Budget
  <2>3. ASSUME NEW d \in work[s].found, NEW to \in {"running", "denied"},
               work' = [work EXCEPT ![s].at = "write", ![s].cmd = d,
                            ![s].to = to, ![s].found = @ \ {d}]
        PROVE  Covered(c)'
    <3>1. d \in Command
      BY DEF CommandTypeOK, Actor
    <3>2. /\ work'[s].at = "write" /\ work'[s].cmd = d /\ work'[s].to = to
          /\ work'[s].found = work[s].found \ {d}
          /\ \A a \in Actor \ {s} : work'[a] = work[a]
      BY <2>3 DEF CommandTypeOK, Actor
    <3>3. QED
      BY <2>1, <3>1, <3>2 DEF CommandTypeOK, Actor, Setting, OneSocket, Covered, Due,
        OnItsWay, Budget
  <2>4. QED BY <1>9, <2>2, <2>3 DEF Take
<1>10. ASSUME NEW s \in Socket, Send(s) PROVE Covered(c)'
    BY <1>10 DEF Send, EndWork, Idle, At, Actor, table, bounds, history,
        CommandTypeOK, Setting, OneSocket, HoldInv, PanelHolds,
        SocketHolds, CreatedOnce, Unseen, Covered, Due, OnItsWay, Budget
<1>11. ASSUME NEW s \in Socket, Report(s) PROVE Covered(c)'
    BY <1>11 DEF Report, Begin, Idle, At, Actor, table, bounds, history,
        CommandTypeOK, Setting, OneSocket, HoldInv, PanelHolds,
        SocketHolds, CreatedOnce, Unseen, Covered, Due, OnItsWay, Budget
<1>12. ASSUME NEW a \in Actor, BreakOff(a) PROVE Covered(c)'
    BY <1>12 DEF BreakOff, EndWork, Idle, At, Actor, table, bounds, history,
        CommandTypeOK, Setting, OneSocket, HoldInv, PanelHolds,
        SocketHolds, CreatedOnce, Unseen, Covered, Due, OnItsWay, Budget
<1>13. QED
    BY <1>1, <1>2, <1>3, <1>4, <1>5, <1>6, <1>7, <1>8, <1>9, <1>10, <1>11,
       <1>12 DEF CommandNext, WriteStep, SocketStep, Actor

----------------------------------------------------------------------------
(* Everything together holds initially and is preserved by every step.     *)
THEOREM Inductive == Setting /\ OneSocket => (CommandSpec => []IInv)
<1> SUFFICES ASSUME Setting, OneSocket PROVE CommandSpec => []IInv
    OBVIOUS
<1>1. CommandInit => IInv
  <2> SUFFICES ASSUME CommandInit PROVE IInv
    OBVIOUS
  <2>1. CommandTypeOK
    BY DEF Setting, CommandInit, Idle, CommandTypeOK, WorkStage, Status
  <2>2. HoldInv
    BY DEF Setting, CommandInit, Idle, Actor, HoldInv, PanelHolds, SocketHolds
  <2>3. ASSUME NEW c \in Command PROVE CreatedOnce(c)
    BY DEF Setting, CommandInit, Idle, Actor, CreatedOnce, Unseen
  <2>4. ASSUME NEW c \in Command PROVE Covered(c)
    BY DEF Setting, CommandInit, Idle, Actor, Covered, Due, OnItsWay, Budget
  <2>5. QED BY <2>1, <2>2, <2>3, <2>4 DEF IInv
<1>2. IInv /\ [CommandNext]_commandVars => IInv'
  <2> SUFFICES ASSUME IInv, [CommandNext]_commandVars PROVE IInv'
    OBVIOUS
  <2>1. CommandTypeOK' /\ HoldInv'
    BY StepTypes, StepHolds DEF IInv
  <2>2. \A c \in Command : CreatedOnce(c)' /\ Covered(c)'
    BY StepCreated, StepCovered DEF IInv
  <2>3. QED BY <2>1, <2>2 DEF IInv
<1>3. QED BY <1>1, <1>2, PTL DEF CommandSpec

(* TypeOK, for any commands, requests, connection and bounds. *)
THEOREM TypeCorrect == Setting /\ OneSocket => (CommandSpec => []CommandTypeOK)
BY Inductive, PTL DEF IInv

(* DispatchesAreApproved: the device gets a command at most once per       *)
(* approval (approve_command, dispatch_next_command, write_command).       *)
THEOREM ApprovalsAreSpentOnce ==
    Setting /\ OneSocket => (CommandSpec => []DispatchesAreApproved)
<1>1. IInv => DispatchesAreApproved
    BY DEF IInv, Covered, DispatchesAreApproved
<1>2. QED BY <1>1, Inductive, PTL
=============================================================================
