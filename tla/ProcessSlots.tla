----------------------------- MODULE ProcessSlots -----------------------------
(***************************************************************************)
(* The child-process slot pool of CommandManager (src/command.rs):         *)
(* spawn_process, on_process_spawned, on_process_output and                *)
(* on_process_exit, driven by the platform layer that runs the processes.  *)
(*                                                                         *)
(* The platform is not part of this source set; it is modelled from spec   *)
(* 4.8 and 5: it reports, for every process it was asked to spawn, that    *)
(* the process started, then chunks of its stdout (only when stdout is     *)
(* piped), then its exit, each tagged with the slot index                  *)
(* (ProcessTag::Command(index)) and delivered one at a time to the single  *)
(* editor thread.  Events of different processes interleave freely.        *)
(*                                                                         *)
(* The on_output template is a script; what matters here is whether it    *)
(* exists and whether evaluating it spawns another process, which re-enters*)
(* spawn_process in the middle of a callback.  Every process carries a     *)
(* ghost identity (pid) that the code does not have.                       *)
(***************************************************************************)
EXTENDS Integers, Sequences, SequencesExt, FiniteSets

CONSTANTS
    SplitByte,      \* the split_on_byte the commands pass (b'\n')
    InvalidByte,    \* a byte that makes std::str::from_utf8 fail
    Chunks,         \* byte chunks the platform may read from a stdout pipe
    MaxUserSpawns,  \* bound on processes spawned by user commands
    MaxChunks       \* bound on the stdout chunks of one process

(***************************************************************************)
(* on_output templates: None (stdout is not piped), a script that does not *)
(* spawn, and a script that spawns a child with neither stdin nor stdout.  *)
(***************************************************************************)
Scripts == {"none", "eval", "spawn"}

VARIABLES
    slots,       \* spawned_processes: Seq of [alive, pid, script, split, input, output]
    procs,       \* the platform's processes, by pid: [slot, state, stdin, fed, delivered]
    evals,       \* ghost: callback evaluations and UTF-8 errors, in order
    userSpawns,  \* number of user spawns so far
    peak         \* ghost: the most processes ever running at once

vars == <<slots, procs, evals, userSpawns, peak>>

St == [slots |-> slots, procs |-> procs, evals |-> evals]

Running(ps) == {p \in 1..Len(ps) : ps[p].state # "exited"}

Apply(st) ==
    /\ slots' = st.slots /\ procs' = st.procs /\ evals' = st.evals
    /\ peak' = IF Cardinality(Running(st.procs)) > peak
                 THEN Cardinality(Running(st.procs)) ELSE peak

\* The first dead slot, or 0 when every slot is alive.
FreeSlot(sl) == SelectInSeq(sl, LAMBDA s : ~s.alive)

(***************************************************************************)
(* The platform's record of a process spawned into slot i; script, split   *)
(* and stdin are ghost copies of what the slot was given.                  *)
(***************************************************************************)
NewProc(i, script, split, stdin) ==
    [slot |-> i, state |-> "requested", script |-> script, split |-> split,
     stdin |-> stdin, fed |-> 0, delivered |-> <<>>, success |-> FALSE]

(***************************************************************************)
(* A live Process slot as spawn_process fills it: its output cleared, its  *)
(* input set from stdin, its callback and split byte recorded.  pid is a   *)
(* ghost naming the process.                                               *)
(***************************************************************************)
Process(p, script, split, stdin) ==
    [alive |-> TRUE, pid |-> p, script |-> script, split |-> split,
     input |-> stdin, output |-> <<>>]

\* Mutant: a new slot is pushed even when a dead one could be reused.
SpawnProcessAlwaysPush(st, script, split, stdin) ==
    LET i == Len(st.slots) + 1
        p == Len(st.procs) + 1
        slot == Process(p, script, split, stdin)
    IN [st EXCEPT !.slots = Append(@, slot),
                  !.procs = Append(@, NewProc(i, script, split, stdin))]

\* Mutant: the first slot is taken whether or not its process is alive.
SpawnProcessFirstSlot(st, script, split, stdin) ==
    LET i == 1
        p == Len(st.procs) + 1
        slot == Process(p, script, split, stdin)
    IN [st EXCEPT !.slots = IF st.slots = <<>> THEN <<slot>> ELSE [@ EXCEPT ![i] = slot],
                  !.procs = Append(@, NewProc(i, script, split, stdin))]

(***************************************************************************)
(* CommandManager::spawn_process: take the first slot whose process is not *)
(* alive, or push a new one; reset it for the new process (output cleared, *)
(* input set when there is stdin) and enqueue PlatformRequest::SpawnProcess*)
(* tagged with the slot index.                                             *)
(***************************************************************************)
SpawnProcess(st, script, split, stdin) ==
    LET f == FreeSlot(st.slots)
        i == IF f # 0 THEN f ELSE Len(st.slots) + 1
        p == Len(st.procs) + 1
        slot == Process(p, script, split, stdin)
    IN [st EXCEPT !.slots = IF f # 0 THEN [@ EXCEPT ![i] = slot] ELSE Append(@, slot),
                  !.procs = Append(@, NewProc(i, script, split, stdin))]

Valid(bytes) == \A j \in 1..Len(bytes) : bytes[j] # InvalidByte

(***************************************************************************)
(* eval_commands_then_output of the slot's on_output template, for the     *)
(* stdout slice `text` of the process the event came from (src).  The      *)
(* "spawn" template spawns a child; a slice that is not UTF-8 is written   *)
(* to the status bar instead.                                              *)
(***************************************************************************)
Callback(st, i, text, src) ==
    LET s == st.slots[i]
        e == [src |-> src, owner |-> s.pid, text |-> text, ok |-> Valid(text)]
        st1 == [st EXCEPT !.evals = Append(@, e)]
    IN IF Valid(text) /\ s.script = "spawn"
          THEN SpawnProcess(st1, "none", FALSE, FALSE)
          ELSE st1

RECURSIVE OutputLoop(_, _, _, _)

\* Mutant: the evaluated slices are left in the accumulator.
OutputLoopNoDrain(st, i, k, src) ==
    LET out == st.slots[i].output
        rest == SubSeq(out, k + 1, Len(out))
        n == SelectInSeq(rest, LAMBDA b : b = SplitByte)
    IN IF n = 0
          THEN st
       ELSE IF n = 1
          THEN OutputLoop(st, i, k + 1, src)
          ELSE OutputLoop(Callback(st, i, SubSeq(rest, 1, n - 1), src), i, k + n, src)

(***************************************************************************)
(* The split loop of on_process_output from output_index = k: evaluate     *)
(* every non-empty slice up to a split byte, then drain(..output_index).   *)
(***************************************************************************)
OutputLoop(st, i, k, src) ==
    LET out == st.slots[i].output
        rest == SubSeq(out, k + 1, Len(out))
        n == SelectInSeq(rest, LAMBDA b : b = SplitByte)
    IN IF n = 0
          THEN [st EXCEPT !.slots[i].output = rest]
       ELSE IF n = 1
          THEN OutputLoop(st, i, k + 1, src)
          ELSE OutputLoop(Callback(st, i, SubSeq(rest, 1, n - 1), src), i, k + n, src)

(***************************************************************************)
(* CommandManager::on_process_output(index, bytes): ignored when there is  *)
(* no on_output; otherwise the bytes are appended to the slot's output,    *)
(* and with a split byte the complete slices are evaluated and drained.    *)
(***************************************************************************)
OnProcessOutput(st, i, bytes, src) ==
    LET s == st.slots[i]
        st1 == [st EXCEPT !.slots[i].output = @ \o bytes]
    IN IF s.script = "none" THEN st
       ELSE IF ~s.split THEN st1
       ELSE OutputLoop(st1, i, 0, src)

\* Mutant: the slot stays alive after its process exits.
OnProcessExitKeepAlive(st, i, success, src) ==
    LET s == st.slots[i] IN
    IF ~success \/ s.script = "none" \/ s.output = <<>> THEN st
    ELSE Callback(st, i, s.output, src)

(***************************************************************************)
(* CommandManager::on_process_exit(index, success): the slot is marked     *)
(* dead; on success the whole remaining output, if any, is evaluated once  *)
(* (or reported when it is not UTF-8).  The output itself is left in the   *)
(* slot; the next spawn_process into the slot clears it.                   *)
(***************************************************************************)
OnProcessExit(st, i, success, src) ==
    LET st1 == [st EXCEPT !.slots[i].alive = FALSE]
        s == st1.slots[i]
    IN IF ~success \/ s.script = "none" \/ s.output = <<>> THEN st1
       ELSE Callback(st1, i, s.output, src)

(***************************************************************************)
(* A user command spawns a process: with or without an on_output template, *)
(* a split byte and stdin.                                                 *)
(***************************************************************************)
UserSpawn ==
    /\ userSpawns < MaxUserSpawns
    /\ userSpawns' = userSpawns + 1
    /\ \E script \in Scripts, split \in BOOLEAN, stdin \in BOOLEAN :
         /\ script = "none" => ~split
         /\ Apply(SpawnProcess(St, script, split, stdin))

(***************************************************************************)
(* The platform started process p and reports ProcessSpawned:              *)
(* on_process_spawned takes the slot's input and enqueues WriteToProcess   *)
(* to the handle of the process that started.                              *)
(***************************************************************************)
ProcessSpawned(p) ==
    LET i == procs[p].slot IN
    /\ procs[p].state = "requested"
    /\ procs' = [procs EXCEPT ![p].state = "running",
                              ![p].fed = IF slots[i].input THEN @ + 1 ELSE @]
    /\ slots' = [slots EXCEPT ![i].input = FALSE]
    /\ UNCHANGED <<evals, userSpawns, peak>>

\* The platform read a chunk from p's piped stdout and reports it.
ProcessOutput(p) ==
    LET i == procs[p].slot IN
    /\ procs[p].state = "running"
    /\ procs[p].script # "none"
    /\ Len(procs[p].delivered) < MaxChunks
    /\ \E c \in Chunks :
         Apply(OnProcessOutput([St EXCEPT !.procs[p].delivered = Append(@, c)], i, c, p))
    /\ UNCHANGED userSpawns

\* The platform reports that p exited, successfully or not.
ProcessExit(p) ==
    /\ procs[p].state = "running"
    /\ \E success \in BOOLEAN :
         Apply(OnProcessExit([St EXCEPT !.procs[p].state = "exited",
                                        !.procs[p].success = success],
                             procs[p].slot, success, p))
    /\ UNCHANGED userSpawns

Init ==
    /\ slots = <<>>
    /\ procs = <<>>
    /\ evals = <<>>
    /\ userSpawns = 0
    /\ peak = 0

Next ==
    \/ UserSpawn
    \/ \E p \in 1..Len(procs) : ProcessSpawned(p) \/ ProcessOutput(p) \/ ProcessExit(p)

\* The system stops once the user has spawned all processes and all exited.
Spec == Init /\ [][Next]_vars

-----------------------------------------------------------------------------

Bytes == UNION {ToSet(c) : c \in Chunks}

Slot == [alive : BOOLEAN, pid : Nat, script : Scripts, split : BOOLEAN,
         input : BOOLEAN, output : Seq(Bytes)]

(***************************************************************************)
(* A slot is alive exactly while the last process spawned into it has not *)
(* exited: on_process_exit frees the slot its exit event names.            *)
(***************************************************************************)
TypeOK ==
    /\ slots \in Seq(Slot)
    /\ \A i \in 1..Len(slots) :
         /\ slots[i].pid \in 1..Len(procs)
         /\ slots[i].alive <=> procs[slots[i].pid].state # "exited"
    /\ userSpawns \in 0..MaxUserSpawns

(***************************************************************************)
(* Events are tagged with the slot index only, so the slot of a process    *)
(* must stay its own from spawn to exit: every process that has not exited *)
(* owns the slot its events will name, and every callback evaluates the   *)
(* template of the process whose output triggered it.                     *)
(***************************************************************************)
NoCrossTalk ==
    /\ \A p \in Running(procs) : slots[procs[p].slot].pid = p
    /\ \A j \in 1..Len(evals) : evals[j].src = evals[j].owner

(***************************************************************************)
(* Reference of spec 4.8 on a process's whole stdout b: the non-empty      *)
(* slices before each split byte, and the bytes after the last one.        *)
(***************************************************************************)
RECURSIVE Pieces(_)
Pieces(b) ==
    LET n == SelectInSeq(b, LAMBDA x : x = SplitByte) IN
    IF n = 0 THEN [lines |-> <<>>, rest |-> b]
    ELSE LET r == Pieces(SubSeq(b, n + 1, Len(b))) IN
         [lines |-> (IF n = 1 THEN <<>> ELSE <<SubSeq(b, 1, n - 1)>>) \o r.lines,
          rest |-> r.rest]

Flushed(pr, b) ==
    IF pr.state = "exited" /\ pr.success /\ b # <<>> THEN <<b>> ELSE <<>>

Expected(p) ==
    LET pr == procs[p]
        b == FlattenSeq(pr.delivered)
    IN CASE pr.script = "none" -> <<>>
         [] ~pr.split -> Flushed(pr, b)
         [] OTHER -> Pieces(b).lines \o Flushed(pr, Pieces(b).rest)

EvaluatedFor(p) ==
    LET es == SelectSeq(evals, LAMBDA e : e.src = p) IN [j \in 1..Len(es) |-> es[j].text]

(***************************************************************************)
(* However the platform chunks a process's stdout, on_output runs once for *)
(* every non-empty slice, in order, as soon as its split byte arrives, and *)
(* once more at a successful exit for the bytes left after the last split  *)
(* (for the whole output when there is no split byte); nothing is run      *)
(* twice and nothing is run for another process.                           *)
(***************************************************************************)
CallbacksMatchOutput == \A p \in 1..Len(procs) : EvaluatedFor(p) = Expected(p)

(***************************************************************************)
(* spawn_process grows spawned_processes only when every slot is alive: the*)
(* pool never has more slots than processes ever ran at once.              *)
(***************************************************************************)
SlotsReused == Len(slots) <= peak

=============================================================================
