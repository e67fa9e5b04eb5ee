-------------------------------- MODULE Moby --------------------------------
(***************************************************************************)
(* The Docker script of src/mobyServer/main.go, run again and again        *)
(* against one Docker daemon.  The daemon's containers outlive the script: *)
(* each run lists them, stops or removes the ones of image ghost:latest,   *)
(* creates a new one bound to host port 8080, starts it and follows its    *)
(* logs until it stops.  A run ends early when the operator interrupts it  *)
(* (it blocks in io.Copy for as long as the container runs) or when a      *)
(* Docker call whose error main checks fails (panic, log.Panic or          *)
(* log.Fatal); the error of ContainerList is never checked.  The next run  *)
(* starts from whatever containers the daemon then holds.                  *)
(*                                                                         *)
(* A container is its state and its image; the JSON printing, the image    *)
(* pull output, the image inspection and the stats goroutine only print.   *)
(***************************************************************************)
EXTENDS Naturals, FiniteSets

CONSTANTS
    Ids,        \* container IDs the daemon may hand out
    Foreign,    \* containers of other images, running from the start
    MaxRuns,    \* bound on the number of times the script is started
    NoId,       \* resp.ID before ContainerCreate
    ListMayFail \* whether ContainerList may fail

ASSUME Foreign \subseteq Ids /\ NoId \notin Ids /\ MaxRuns \in Nat
ASSUME ListMayFail \in BOOLEAN

Img == "ghost:latest"                     \* img, line 129
Images == {Img, "other"}
States == {"none", "created", "running", "exited"}   \* "none": no such container

\* The steps of main, in order; "idle": the script is not running, "failed":
\* it ended in the panic of line 219.
Steps == {"idle", "list", "clean", "pull", "create", "start", "stats",
          "logs", "copy", "wait", "relist", "done", "failed"}

VARIABLES
    ctr,    \* the daemon's containers: ctr[c].st, ctr[c].img
    runs,   \* how many times the script has been started
    pc,     \* the step main is at
    snap,   \* list, line 137: what ContainerList returned, not yet visited
    mine,   \* resp.ID: the container this run created
    failedLists  \* history: the runs whose first ContainerList failed

vars == <<ctr, runs, pc, snap, mine, failedLists>>

Init ==
    /\ ctr = [c \in Ids |-> IF c \in Foreign
                            THEN [st |-> "running", img |-> "other"]
                            ELSE [st |-> "none", img |-> Img]]
    /\ runs = 0
    /\ pc = "idle"
    /\ snap = {}
    /\ mine = NoId
    /\ failedLists = {}

\* strings.Contains(img, containerData.Image): the container runs ghost:latest.
Matches(e) == e.img = Img

\* Host port 8080 is bound by a running container other than c: every
\* container the script creates binds it (hostConfig, lines 202-210).
PortHeld(c) == \E d \in Ids \ {c} : ctr[d].img = Img /\ ctr[d].st = "running"

-----------------------------------------------------------------------------
(* The operator                                                            *)

\* go run . : main starts with nothing of an earlier run but the daemon.
Rerun ==
    /\ pc \in {"idle", "done", "failed"}
    /\ runs < MaxRuns
    /\ runs' = runs + 1
    /\ pc' = "list"
    /\ snap' = {}
    /\ mine' = NoId
    /\ UNCHANGED <<ctr, failedLists>>

\* Ctrl-C while main runs, or a failing Docker call whose error is checked
\* (every one of lines 131-260 but the ContainerList of line 137): main
\* ends where it is and the containers stay as they are.
Interrupt ==
    /\ pc \notin {"idle", "done", "failed"}
    /\ pc' = "idle"
    /\ UNCHANGED <<ctr, runs, snap, mine, failedLists>>

\* The ghost server in a container stops by itself.
Exit(c) ==
    /\ ctr[c].img = Img
    /\ ctr[c].st = "running"
    /\ ctr' = [ctr EXCEPT ![c].st = "exited"]
    /\ UNCHANGED <<runs, pc, snap, mine, failedLists>>

-----------------------------------------------------------------------------
(* main                                                                    *)

\* NewClientWithOpts and ContainerList(All: true), lines 131-140.  The
\* error of ContainerList is not read: a failed call leaves list nil, and
\* the cleanup loop has nothing to visit.
List ==
    /\ pc = "list"
    /\ \E ok \in IF ListMayFail THEN BOOLEAN ELSE {TRUE} :
        /\ snap' = IF ok
                   THEN {[id |-> c, st |-> ctr[c].st, img |-> ctr[c].img] :
                            c \in {d \in Ids : ctr[d].st # "none"}}
                   ELSE {}
        /\ failedLists' = IF ok THEN failedLists ELSE failedLists \cup {runs}
    /\ pc' = "clean"
    /\ UNCHANGED <<ctr, runs, mine>>

\* Mutant: the loop only removes; a container listed as running is skipped.
CleanWithoutStop ==
    /\ pc = "clean"
    /\ \E e \in snap :
        /\ snap' = snap \ {e}
        /\ ctr' = IF Matches(e) /\ e.st # "running"
                  THEN [ctr EXCEPT ![e.id].st = "none"] ELSE ctr
    /\ UNCHANGED <<runs, pc, mine, failedLists>>

\* Mutant: the loop only stops; nothing is removed.
CleanWithoutRemove ==
    /\ pc = "clean"
    /\ \E e \in snap :
        /\ snap' = snap \ {e}
        /\ ctr' = IF Matches(e) /\ e.st = "running"
                  THEN [ctr EXCEPT ![e.id].st =
                           IF @ = "running" THEN "exited" ELSE @]
                  ELSE ctr
    /\ UNCHANGED <<runs, pc, mine, failedLists>>

\* One iteration of the cleanup loop, lines 143-157.  Both tests read the
\* listed state, not the container's current one: a container listed as
\* running is stopped (ContainerStop of an exited container succeeds) and
\* left in place; one listed as created or exited is removed with Force.
Clean ==
    /\ pc = "clean"
    /\ \E e \in snap :
        /\ snap' = snap \ {e}
        /\ ctr' = IF ~Matches(e) THEN ctr
                  ELSE IF e.st = "running"
                       THEN [ctr EXCEPT ![e.id].st =
                                IF @ = "running" THEN "exited" ELSE @]
                       ELSE [ctr EXCEPT ![e.id].st = "none"]
    /\ UNCHANGED <<runs, pc, mine, failedLists>>

\* The loop is done: ImagePull, the scan of its output, ImageList and
\* ImageInspectWithRaw of the ghost images, lines 159-193.
Pull ==
    /\ pc = "clean"
    /\ snap = {}
    /\ pc' = "create"
    /\ UNCHANGED <<ctr, runs, snap, mine, failedLists>>

\* ContainerCreate, lines 195-215: a new container of ghost:latest.
Create ==
    /\ pc = "create"
    /\ \E c \in Ids :
        /\ ctr[c].st = "none"
        /\ ctr' = [ctr EXCEPT ![c] = [st |-> "created", img |-> Img]]
        /\ mine' = c
    /\ pc' = "start"
    /\ UNCHANGED <<runs, snap, failedLists>>

\* ContainerStart, lines 217-220: it fails, and main panics, when another
\* container holds host port 8080.
Start ==
    /\ pc = "start"
    /\ IF PortHeld(mine)
       THEN /\ pc' = "failed"
            /\ UNCHANGED ctr
       ELSE /\ ctr' = [ctr EXCEPT ![mine].st = "running"]
            /\ pc' = "stats"
    /\ UNCHANGED <<runs, snap, mine, failedLists>>

\* ContainerStats and the printing goroutine, lines 222-244; then
\* ContainerLogs with Follow, lines 246-250.
Stats ==
    /\ pc = "stats"
    /\ pc' = "logs"
    /\ UNCHANGED <<ctr, runs, snap, mine, failedLists>>

Logs ==
    /\ pc = "logs"
    /\ pc' = "copy"
    /\ UNCHANGED <<ctr, runs, snap, mine, failedLists>>

\* io.Copy(os.Stdout, out), line 252: the followed log ends only when the
\* container is no longer running.
Copy ==
    /\ pc = "copy"
    /\ ctr[mine].st # "running"
    /\ pc' = "wait"
    /\ UNCHANGED <<ctr, runs, snap, mine, failedLists>>

\* ContainerWait(WaitConditionNotRunning), lines 254-261: the container has
\* stopped, so statusCh answers.
Wait ==
    /\ pc = "wait"
    /\ pc' = "relist"
    /\ UNCHANGED <<ctr, runs, snap, mine, failedLists>>

\* The last ContainerList, lines 263-266, and main returns.
Relist ==
    /\ pc = "relist"
    /\ pc' = "done"
    /\ UNCHANGED <<ctr, runs, snap, mine, failedLists>>

Next ==
    \/ Rerun \/ Interrupt
    \/ \E c \in Ids : Exit(c)
    \/ List \/ Clean \/ Pull \/ Create \/ Start \/ Stats \/ Logs
    \/ Copy \/ Wait \/ Relist

Spec == Init /\ [][Next]_vars

-----------------------------------------------------------------------------
(* Properties                                                              *)

\* The containers of ghost:latest other than the one this run created.
Leftovers == {c \in Ids \ {mine} : ctr[c].img = Img /\ ctr[c].st # "none"}

\* ContainerStart (line 217) fails for want of host port 8080 only in a
\* run whose listing failed: the cleanup loop of a run that got its
\* listing, working from it while earlier containers exit on their own,
\* stops every ghost container that could still hold the port, whatever
\* step earlier runs were interrupted at.  A failed listing skips the
\* loop, and a container still running from an earlier run holds the port.
ContainerStartSucceeds == pc = "failed" => runs \in failedLists

\* Once a run has created its container, the containers of earlier runs
\* left beside it are at most one, plus one for each run whose listing
\* failed: a run that gets its listing removes every ghost container it
\* lists as not running and only stops the one (at most) that runs, and a
\* run that gets none cleans nothing and adds its own.
AtMostOneLeftover ==
    mine # NoId => Cardinality(Leftovers) <= 1 + Cardinality(failedLists)

=============================================================================
