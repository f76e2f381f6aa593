---------------------------- MODULE PassSchedule ----------------------------
(***************************************************************************)
(* What the pipeline scheduler promises for a queue of passes: they take   *)
(* effect one by one in the order of the queue; a preset's entry may be    *)
(* skipped, or followed at once by cleanup passes of its own; what was     *)
(* requested by name is never skipped, and a result that throws passes     *)
(* away is returned only if nothing was requested by name.                 *)
(***************************************************************************)
EXTENDS Naturals, Sequences

CONSTANT
    Queues      \* queues of entries with a name and a preset flag

VARIABLES
    queue,      \* the expanded request
    at,         \* the entry the scheduler is at
    ran,        \* passes that have taken effect, each with the entry it is for
    outcome,    \* running, done, failed
    result      \* the passes in the module returned

scheduleVars == <<queue, at, ran, outcome, result>>

Waiting == outcome = "running" /\ at <= Len(queue)

OwnStep == [pass |-> queue[at].name, for |-> at]

ScheduleInit ==
    /\ queue \in Queues
    /\ at = 1 /\ ran = <<>> /\ outcome = "running" /\ result = <<>>

Run ==
    /\ Waiting
    /\ Len(ran') > Len(ran)
    /\ SubSeq(ran', 1, Len(ran) + 1) = Append(ran, OwnStep)
    /\ \A k \in Len(ran) + 2..Len(ran') : ran'[k].for = at /\ queue[at].preset
    /\ at' = at + 1
    /\ UNCHANGED <<queue, outcome, result>>

Skip ==
    /\ Waiting /\ queue[at].preset
    /\ at' = at + 1
    /\ UNCHANGED <<queue, ran, outcome, result>>

AllPreset == \A i \in DOMAIN queue : queue[i].preset

Return ==
    /\ outcome = "running" /\ at = Len(queue) + 1
    /\ outcome' = "done"
    /\ result' = ran \/ (AllPreset /\ result' = <<>>)
    /\ UNCHANGED <<queue, at, ran>>

Fail ==
    /\ outcome = "running"
    /\ outcome' = "failed"
    /\ UNCHANGED <<queue, at, ran, result>>

ScheduleNext == Run \/ Skip \/ Return \/ Fail
ScheduleSpec == ScheduleInit /\ [][ScheduleNext]_scheduleVars
=============================================================================
