---------------------------- MODULE ArtifactStore ----------------------------
(***************************************************************************)
(* The files through which the commands of jah work on a candidate: each   *)
(* is opened for writing, which empties it, and then written; a command    *)
(* that is killed leaves it torn.  One command runs at a time.             *)
(***************************************************************************)
EXTENDS Integers, Sequences

CONSTANTS
  Files,        \* the paths
  Kinds,        \* of commands
  Budgets,      \* bounds on the runs of the model: how many of each kind
  MaxMishaps    \* and how many are killed

ASSUME StoreAssumption == Budgets \subseteq [Kinds -> Nat] /\ MaxMishaps \in Nat

VARIABLES
  disk,      \* what each file holds
  command,   \* the command at work, "none" between two, or while it writes
  writes,    \* what it still has to do to its files, in order
  left, commands, mishaps

store == <<disk, command, writes, left, commands, mishaps>>

Absent == [kind |-> "absent"]
Torn   == [kind |-> "torn"]

Has(f, kind) == disk[f].kind = kind

Begin(kind, name) ==
  /\ command = "none" /\ writes = <<>> /\ left[kind] > 0
  /\ left' = [left EXCEPT ![kind] = @ - 1] /\ commands' = commands + 1
  /\ command' = name

(* created_at, or the time stamp of a file.                                *)
Stamp == commands

(* A command that only reads, or fails before it writes.                   *)
Ask(kind) == Begin(kind, "none") /\ UNCHANGED <<disk, writes, mishaps>>

AtOnce(f, doc) == <<[file |-> f, doc |-> doc]>>

Overwritten(f, doc) == AtOnce(f, Torn) \o AtOnce(f, doc)

EndBy(ws) == command' = "none" /\ writes' = ws

Do(kind, ws) == Begin(kind, "none") /\ writes' = ws /\ UNCHANGED <<disk, mishaps>>

(* A step of a command that goes on, and its last one before it writes.    *)
Goes(name) == command = name /\ UNCHANGED store

Ends(name, ws) == command = name /\ EndBy(ws) /\ UNCHANGED <<disk, left, commands, mishaps>>

Write == /\ writes # <<>>
         /\ disk' = [disk EXCEPT ![writes[1].file] = writes[1].doc]
         /\ writes' = Tail(writes)
         /\ UNCHANGED <<command, left, commands, mishaps>>

Die == /\ command # "none" \/ writes # <<>>
       /\ mishaps < MaxMishaps /\ mishaps' = mishaps + 1
       /\ EndBy(<<>>)
       /\ UNCHANGED <<disk, left, commands>>
=============================================================================
