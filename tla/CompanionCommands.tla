------------------------- MODULE CompanionCommands -------------------------
(* The commands of one companion device (companion.rs): the panel creates  *)
(* them and decides about the risky ones, the connection of the device     *)
(* takes the next one whenever the device shows up and stores what it      *)
(* reports.  A command is a value of the key-value table, and so is the    *)
(* list of the device's commands; every write of a command also reads the  *)
(* list and writes it back.                                                *)
EXTENDS Integers, FiniteSets

CONSTANTS
    Command,      \* the commands that may be created, each once: ids are new
    Risky,        \* those with a high-risk scope
    Panel,        \* requests of the control panel that may overlap
    Socket,       \* connections of the device
    NoCommand,
    MaxAsked,     \* bound: requests of the panel
    MaxBreaks     \* bound: requests and messages cut short

VARIABLES
    status,       \* command_key: the stored status of each command
    index,        \* command_index_key: the listed commands
    work,         \* what each request and connection is at, see TypeOK
    held,         \* what the device has received and not reported
    made, asked, breaks,
    approved,     \* history: approvals written for each command
    sent          \* history: how often each command went to the device

table == <<status, index>>
bounds == <<made, asked, breaks>>
history == <<approved, sent>>
commandVars == <<table, work, held, bounds, history>>

Actor == Panel \cup Socket
Status == {"none", "approval_required", "queued", "denied", "running", "done"}
WorkStage == {"idle", "write", "load", "list", "look", "send"}

Idle == [at |-> "idle", cmd |-> NoCommand, to |-> "none", ids |-> {},
         left |-> {}, found |-> {}]

CommandTypeOK ==
    /\ status \in [Command -> Status]
    /\ index \subseteq Command
    /\ work \in [Actor -> [at : WorkStage, cmd : Command \cup {NoCommand}, to : Status,
                 ids : SUBSET Command, left : SUBSET Command,
                 found : SUBSET Command]]
    /\ held \subseteq Command /\ made \subseteq Command
    /\ asked \in 0..MaxAsked /\ breaks \in 0..MaxBreaks
    /\ approved \in [Command -> Nat] /\ sent \in [Command -> Nat]

CommandInit ==
    /\ status = [c \in Command |-> "none"]
    /\ index = {} /\ held = {} /\ made = {}
    /\ work = [a \in Actor |-> Idle]
    /\ asked = 0 /\ breaks = 0
    /\ approved = [c \in Command |-> 0] /\ sent = [c \in Command |-> 0]

At(a, stage) == work[a].at = stage
EndWork(a) == work' = [work EXCEPT ![a] = Idle]

(* A command is about to be stored with a new status. *)
Begin(a, c, to) ==
    work' = [work EXCEPT ![a] = [Idle EXCEPT !.at = "write", !.cmd = c, !.to = to]]

----------------------------------------------------------------------------
(* The panel. *)

Create(u) ==
    /\ At(u, "idle") /\ asked < MaxAsked
    /\ asked' = asked + 1
    /\ \E c \in Command \ made :
        /\ made' = made \cup {c}
        /\ Begin(u, c, IF c \in Risky THEN "approval_required" ELSE "queued")
    /\ UNCHANGED <<table, held, breaks, history>>

(* A decision is about what is waiting for one when it is read. *)
Decide(u) ==
    /\ At(u, "idle") /\ asked < MaxAsked
    /\ asked' = asked + 1
    /\ \E c \in Command, to \in {"queued", "denied"} :
        /\ status[c] = "approval_required"
        /\ Begin(u, c, to)
    /\ UNCHANGED <<table, held, made, breaks, history>>

----------------------------------------------------------------------------
(* write_command, the end of every operation: the value, then the list. *)

WriteValue(a) ==
    /\ At(a, "write")
    /\ status' = [status EXCEPT ![work[a].cmd] = work[a].to]
    /\ work' = [work EXCEPT ![a].at = "load"]
    /\ approved' = IF work[a].to = "queued" /\ work[a].cmd \in Risky
                   THEN [approved EXCEPT ![work[a].cmd] = @ + 1]
                   ELSE approved
    /\ UNCHANGED <<index, held, bounds, sent>>

LoadIndex(a) ==
    /\ At(a, "load")
    /\ work' = [work EXCEPT ![a].ids = index, ![a].at = "list"]
    /\ UNCHANGED <<table, held, bounds, history>>

(* What a connection refuses it does not send: it looks at the next one. *)
Refuses(a) == a \in Socket /\ work[a].to = "denied"

(* What was listed since it was read is lost. *)
StoreIndex(a) ==
    /\ At(a, "list")
    /\ index' = work[a].ids \cup {work[a].cmd}
    /\ \/ work[a].to = "running" /\ work' = [work EXCEPT ![a].at = "send"]
       \/ Refuses(a) /\ work' = [work EXCEPT ![a].at = "look"]
       \/ work[a].to # "running" /\ ~Refuses(a) /\ EndWork(a)
    /\ UNCHANGED <<status, held, bounds, history>>

----------------------------------------------------------------------------
(* The connection: it handles one message of the device after the other.   *)

(* The device connects or sends a pulse: dispatch_next_command, which does *)
(* nothing if no command is listed.                                        *)
Pulse(s) ==
    /\ At(s, "idle") /\ index # {}
    /\ work' = [work EXCEPT ![s] = [Idle EXCEPT !.at = "look", !.left = index]]
    /\ UNCHANGED <<table, held, bounds, history>>

(* Mutant of LookUp: what is running counts as well. *)
LookAgain(s) ==
    /\ At(s, "look")
    /\ \E c \in work[s].left :
        work' = [work EXCEPT ![s].left = @ \ {c},
                    ![s].found = @ \cup
                        {d \in {c} : status[d] \in {"queued", "running"}}]
    /\ UNCHANGED <<table, held, bounds, history>>

(* Mutant of LookUp: a command that is not queued ends the search. *)
LookNoFurther(s) ==
    /\ At(s, "look")
    /\ \E c \in work[s].left :
        work' = [work EXCEPT ![s].left = IF status[c] = "queued" THEN @ \ {c} ELSE {},
                    ![s].found = @ \cup {d \in {c} : status[d] = "queued"}]
    /\ UNCHANGED <<table, held, bounds, history>>

(* list_commands reads the values one by one. *)
LookUp(s) ==
    /\ At(s, "look")
    /\ \E c \in work[s].left :
        work' = [work EXCEPT ![s].left = @ \ {c},
                    ![s].found = @ \cup {d \in {c} : status[d] = "queued"}]
    /\ UNCHANGED <<table, held, bounds, history>>

(* The latest of the queued ones, which is refused if the token of the     *)
(* device no longer has its scopes; the order and the scopes are left open.*)
Take(s) ==
    /\ At(s, "look") /\ work[s].left = {}
    /\ \/ work[s].found = {} /\ EndWork(s)
       \/ \E c \in work[s].found, to \in {"running", "denied"} :
            work' = [work EXCEPT ![s].at = "write", ![s].cmd = c, ![s].to = to,
                         ![s].found = @ \ {c}]
    /\ UNCHANGED <<table, held, bounds, history>>

Send(s) ==
    /\ At(s, "send")
    /\ sent' = [sent EXCEPT ![work[s].cmd] = @ + 1]
    /\ held' = held \cup {work[s].cmd}
    /\ EndWork(s)
    /\ UNCHANGED <<table, bounds, approved>>

(* complete_command; whatever the stored status is by now. *)
Report(s) ==
    /\ At(s, "idle")
    /\ \E c \in held : held' = held \ {c} /\ Begin(s, c, "done")
    /\ UNCHANGED <<table, bounds, history>>

(* A statement fails, the connection breaks or the process is restarted.   *)
BreakOff(a) ==
    /\ ~At(a, "idle") /\ breaks < MaxBreaks
    /\ breaks' = breaks + 1
    /\ EndWork(a)
    /\ UNCHANGED <<table, held, made, asked, history>>

----------------------------------------------------------------------------
WriteStep(a) == WriteValue(a) \/ LoadIndex(a) \/ StoreIndex(a)
SocketStep(s) == Pulse(s) \/ LookUp(s) \/ Take(s) \/ Send(s) \/ WriteStep(s)

CommandNext ==
    \/ \E u \in Panel : Create(u) \/ Decide(u) \/ WriteStep(u)
    \/ \E s \in Socket : SocketStep(s) \/ Report(s)
    \/ \E a \in Actor : BreakOff(a)

(* The device sends its pulse again and again, and the connection handles  *)
(* it to the end.                                                          *)
CommandFairness == \A s \in Socket : WF_commandVars(SocketStep(s))

CommandSpec == CommandInit /\ [][CommandNext]_commandVars
CommandFairSpec == CommandSpec /\ CommandFairness

----------------------------------------------------------------------------
(* Every approval is spent at most once, and what needs none goes to the   *)
(* device at most once: "High-risk actions require fresh UI approval       *)
(* before dispatch" (companion.rs, protocol_document; approve_command,     *)
(* dispatch_next_command).                                                 *)
Budget(c) == IF c \in Risky THEN approved[c] ELSE 1

DispatchesAreApproved == \A c \in Command : sent[c] <= Budget(c)

(* A command that is queued and listed does not stay so: the device gets   *)
(* it, it is decided otherwise, or another write of the list loses it      *)
(* (dispatch_next_command, append_index).                                  *)
Waiting(c) == status[c] = "queued" /\ c \in index

ListedIsDispatched == \A c \in Command : []<>~Waiting(c)
=============================================================================
