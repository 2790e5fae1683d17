------------------------------ MODULE Downloads ------------------------------
(***************************************************************************)
(* The downloads of the model library (server/model_library.cpp): one job  *)
(* per entry on a thread of its own, which fetches each file with curl     *)
(* into a `.part', checks it against its digest and renames it, while the  *)
(* routes start, cancel and delete, and forget and add entries again.      *)
(*                                                                         *)
(* One step of a job per look at what other threads change: its cancel,    *)
(* the process it registers under proc_m, the disk.  The routes hold m_,   *)
(* and take one step each; cancel_download takes two, with m_ held.        *)
(* A killed server leaves its curls to themselves: each goes on writing    *)
(* the part it was started for.  The files of two entries are different    *)
(* files, and a name stands for one file in every list of an entry.        *)
(***************************************************************************)
EXTENDS Naturals, Sequences, SequencesExt

CONSTANTS Entries,
          ListsOf,      \* the file lists an entry is added with, each in order
          Sized,        \* the files the catalog names a size of
          Digest,       \* the files the catalog names a digest of
          MaxAttempts,  \* kDownloadMaxAttempts
          MaxCalls,     \* bounds the calls of the routes
          Crashes,      \* whether the server may be killed
          Overlap       \* whether a download may start beside a curl that outlived a killed server

Lists == UNION {ListsOf[e] : e \in Entries}
FilesOf(e) == UNION {ToSet(l) : l \in ListsOf[e]}
Files == UNION {FilesOf(e) : e \in Entries}

ASSUME DownloadsAssumption ==
    /\ DOMAIN ListsOf = Entries /\ \A l \in Lists : l \in Seq(Files) /\ l # <<>>
    /\ \A d, e \in Entries : d # e => FilesOf(d) \cap FilesOf(e) = {}
    /\ Digest \subseteq Files /\ Sized \subseteq Files
    /\ MaxAttempts \in Nat \ {0} /\ MaxCalls \in Nat
    /\ Crashes \in BOOLEAN /\ Overlap \in BOOLEAN

VARIABLES
    part, final,   \* what is on the disk of each file
    left,          \* the files that the curl of a killed server still writes
    listed,        \* the entries the library knows: the list of each, or none
    job,           \* jobs_: the job of each entry with its copy of the list, or NoJob
    curl,          \* the process of each job
    shown,         \* the state last published of each entry
    cancelling,    \* the entry whose cancel holds m_
    closing,       \* the destructor has begun
    calls

disk == <<part, final, left>>
library == <<listed, job, cancelling, closing, calls>>
vars == <<disk, listed, job, curl, shown, cancelling, closing, calls>>

None == "none"
NoJob == [pc |-> "none", files |-> <<>>, i |-> 1, attempt |-> 1,
          cancel |-> FALSE, known |-> FALSE, hidden |-> FALSE]
Places == {"none", "file", "create", "spawned", "poll", "joined", "ended", "wait", "finish", "rename", "end", "over"}
\* A size that is the catalog's, whatever the bytes; a longer one.
Complete == {"whole", "other"}
Contents == Complete \cup {"none", "some", "long"}

TypeOK ==
    /\ part \in [Files -> Contents] /\ final \in [Files -> Contents] /\ left \subseteq Files
    /\ \A e \in Entries : listed[e] \in ListsOf[e] \cup {<<>>}
    /\ cancelling \in Entries \cup {None} /\ closing \in BOOLEAN
    /\ \A e \in Entries : job[e].pc \in Places /\ job[e].i \in 1..(Len(job[e].files) + 1)
    /\ curl \in [Entries -> {"none", "alive", "ok", "transient", "fatal"}]
    /\ shown \in [Entries -> {"none", "running", "done", "cancelled", "error"}]

Init ==
    /\ part = [f \in Files |-> "none"] /\ final = [f \in Files |-> "none"]
    /\ left = {} /\ listed \in [Entries -> Lists] /\ (\A e \in Entries : listed[e] \in ListsOf[e])
    /\ job = [e \in Entries |-> NoJob] /\ curl = [e \in Entries |-> "none"]
    /\ shown = [e \in Entries |-> "none"] /\ cancelling = None /\ closing = FALSE /\ calls = 0

File(e) == job[e].files[job[e].i]
Running(e) == job[e].pc \notin {"none", "over"}

----------------------------------------------------------------------------
(***************************************************************************)
(* run_download and finish_file, on the job's thread.                      *)
(***************************************************************************)
At(e, pc) == job[e].pc = pc
Goto(e, pc) == job' = [job EXCEPT ![e].pc = pc]
\* A published end: the thread returns.
EndsAs(e, state) == Goto(e, "end") /\ shown' = [shown EXCEPT ![e] = state]
JobOnly == UNCHANGED <<listed, cancelling, closing, calls>>

\* A file of which the catalog names no size is there whatever it holds.
HasExactSize(f) == final[f] # "none" /\ (f \in Sized => final[f] \in Complete)

NextFile(e) ==
    /\ At(e, "file") /\ job[e].i <= Len(job[e].files)
    /\ job' = [job EXCEPT ![e] =
                 IF HasExactSize(File(e)) THEN [@ EXCEPT !.i = @ + 1]
                 ELSE IF File(e) \in Sized /\ part[File(e)] \in Complete THEN [@ EXCEPT !.pc = "finish"]
                 ELSE [@ EXCEPT !.pc = "create", !.attempt = 1]]
    /\ JobOnly /\ UNCHANGED <<disk, curl, shown>>

AllFiles(e) ==
    /\ At(e, "file") /\ job[e].i > Len(job[e].files)
    /\ EndsAs(e, "done")
    /\ JobOnly /\ UNCHANGED <<disk, curl>>

Create(e) ==
    /\ At(e, "create")
    /\ \/ Goto(e, "spawned") /\ curl' = [curl EXCEPT ![e] = "alive"] /\ UNCHANGED shown
       \/ EndsAs(e, "error") /\ UNCHANGED curl
    /\ JobOnly /\ UNCHANGED disk

Register(e) ==
    /\ At(e, "spawned")
    /\ job' = [job EXCEPT ![e].pc = "poll", ![e].known = TRUE]
    /\ shown' = [shown EXCEPT ![e] = "running"]
    /\ JobOnly /\ UNCHANGED <<disk, curl>>

Join(e) ==
    /\ At(e, "poll") /\ curl[e] # "alive"
    /\ Goto(e, "joined")
    /\ JobOnly /\ UNCHANGED <<disk, curl, shown>>

Deregister(e) ==
    /\ At(e, "joined")
    /\ job' = [job EXCEPT ![e].pc = "ended", ![e].known = FALSE]
    /\ JobOnly /\ UNCHANGED <<disk, curl, shown>>

\* What curl's exit leads to: the file, another attempt, or the end with the part kept.
AfterCurl(e) ==
    /\ At(e, "ended")
    /\ curl' = [curl EXCEPT ![e] = "none"]
    /\ CASE job[e].cancel -> EndsAs(e, "cancelled")
         [] ~job[e].cancel /\ curl[e] = "ok" /\ (File(e) \in Sized => part[File(e)] \in Complete) ->
              Goto(e, "finish") /\ UNCHANGED shown
         [] ~job[e].cancel /\ curl[e] = "transient" /\ job[e].attempt < MaxAttempts ->
              /\ job' = [job EXCEPT ![e].pc = "wait", ![e].attempt = @ + 1]
              /\ UNCHANGED shown
         [] OTHER -> EndsAs(e, "error")
    /\ JobOnly /\ UNCHANGED disk

WaitOver(e) ==
    /\ At(e, "wait")
    /\ IF job[e].cancel THEN EndsAs(e, "cancelled") ELSE Goto(e, "create") /\ UNCHANGED shown
    /\ JobOnly /\ UNCHANGED <<disk, curl>>

\* MUTANT of Check: a part that was already complete is taken as it is.
CheckNothing(e) ==
    /\ At(e, "finish")
    /\ Goto(e, "rename") /\ UNCHANGED <<shown, part>>
    /\ JobOnly /\ UNCHANGED <<final, left, curl>>

\* The digest: a part it refuses is deleted, one that cannot be read is kept.
Check(e) ==
    /\ At(e, "finish")
    /\ IF File(e) \notin Digest THEN Goto(e, "rename") /\ UNCHANGED <<shown, part>>
       ELSE IF job[e].cancel THEN EndsAs(e, "cancelled") /\ UNCHANGED part
       ELSE \/ EndsAs(e, "error") /\ UNCHANGED part
            \/ part[File(e)] = "whole" /\ Goto(e, "rename") /\ UNCHANGED <<shown, part>>
            \/ /\ part[File(e)] # "whole" /\ EndsAs(e, "error")
               /\ part' = [part EXCEPT ![File(e)] = "none"]
    /\ JobOnly /\ UNCHANGED <<final, left, curl>>

Rename(e) ==
    /\ At(e, "rename")
    /\ LET f == File(e) IN
       \/ /\ part[f] # "none"
          /\ part' = [part EXCEPT ![f] = "none"] /\ final' = [final EXCEPT ![f] = part[f]]
          /\ job' = [job EXCEPT ![e].pc = "file", ![e].i = @ + 1]
          /\ UNCHANGED shown
       \/ EndsAs(e, "error") /\ UNCHANGED <<part, final>>
    /\ JobOnly /\ UNCHANGED <<left, curl>>

\* MUTANT of Finished: the end is published and the job never counts as over.
NotFinished(e) == At(e, "end") /\ UNCHANGED vars

Finished(e) ==
    /\ At(e, "end")
    /\ Goto(e, "over")
    /\ JobOnly /\ UNCHANGED <<disk, curl, shown>>

JobStep(e) ==
    \/ NextFile(e) \/ AllFiles(e) \/ Create(e) \/ Register(e) \/ Join(e) \/ Deregister(e)
    \/ AfterCurl(e) \/ WaitOver(e) \/ Check(e) \/ Rename(e) \/ Finished(e)

----------------------------------------------------------------------------
(***************************************************************************)
(* curl: it goes on from the part's end, which may be past every size the  *)
(* catalog names, and ends as it likes: what it calls a success need not   *)
(* be the whole file.                                                      *)
(***************************************************************************)
Grown(c) == CASE c \in {"none", "some"} -> Contents \ {"none"}
              [] c \in {"other", "long"} -> {"long"}
              [] c = "whole" -> {}

CurlWrites(e) ==
    /\ curl[e] = "alive"
    /\ \E got \in Grown(part[File(e)]) : part' = [part EXCEPT ![File(e)] = got]
    /\ UNCHANGED <<final, left, curl, shown, library>>

CurlEnds(e) ==
    /\ curl[e] = "alive"
    /\ \E rc \in {"ok", "transient", "fatal"} : curl' = [curl EXCEPT ![e] = rc]
    /\ UNCHANGED <<disk, shown, library>>

\* The curl of a killed server: alone on the part, or beside the curl of another job, behind
\* whose bytes its own make the part, or the file that part was renamed to, too long.
LeftWrites(f) ==
    /\ f \in left
    /\ \/ /\ \E got \in Grown(part[f]) \cup {"long"} : part' = [part EXCEPT ![f] = got]
          /\ UNCHANGED final
       \/ final[f] # "none" /\ final' = [final EXCEPT ![f] = "long"] /\ UNCHANGED part
    /\ UNCHANGED <<left, curl, shown, library>>

LeftEnds(f) ==
    /\ f \in left
    /\ left' = left \ {f}
    /\ UNCHANGED <<part, final, curl, shown, library>>

----------------------------------------------------------------------------
(***************************************************************************)
(* The routes.                                                             *)
(***************************************************************************)
Call == ~closing /\ cancelling = None /\ calls < MaxCalls /\ calls' = calls + 1

\* A job that runs already is the answer; one that is over makes room.  Nothing looks for a
\* curl of another server: Overlap = FALSE assumes that none is left by then.
Start(e) ==
    /\ Call /\ listed[e] # <<>> /\ ~Running(e)
    /\ Overlap \/ ToSet(listed[e]) \cap left = {}
    /\ job' = [job EXCEPT ![e] = [NoJob EXCEPT !.pc = "file", !.files = listed[e]]]
    /\ UNCHANGED <<disk, listed, curl, shown, cancelling, closing>>

\* The process a cancel finds is ended; one that was waited for already is none of ours.
Terminated(e) == IF job[e].known /\ curl[e] = "alive" THEN [curl EXCEPT ![e] = "fatal"] ELSE curl

Cancel(e) ==
    /\ Call /\ Running(e)
    /\ job' = [job EXCEPT ![e].cancel = TRUE] /\ cancelling' = e
    /\ UNCHANGED <<disk, listed, curl, shown, closing>>

Terminate ==
    /\ cancelling # None
    /\ curl' = Terminated(cancelling) /\ cancelling' = None
    /\ UNCHANGED <<disk, listed, job, shown, closing, calls>>

\* Only the entries added at run time can be forgotten, and added again.
Forget(e) ==
    /\ Call /\ listed[e] # <<>>
    /\ listed' = [listed EXCEPT ![e] = <<>>]
    /\ job' = [job EXCEPT ![e].hidden = Running(e)]
    /\ UNCHANGED <<disk, curl, shown, cancelling, closing>>

\* An entry that is listed is replaced, its files too, and a job of it goes on with the old ones.
Add(e) ==
    /\ Call
    /\ \E l \in ListsOf[e] \ {listed[e]} :
         /\ listed' = [listed EXCEPT ![e] = l]
         /\ job' = [job EXCEPT ![e].hidden = @ \/ (Running(e) /\ l # job[e].files)]
    /\ UNCHANGED <<disk, curl, shown, cancelling, closing>>

DeletePartial(e) ==
    /\ Call /\ listed[e] # <<>> /\ ~Running(e)
    /\ part' = [f \in Files |-> IF f \in ToSet(listed[e]) THEN "none" ELSE part[f]]
    /\ UNCHANGED <<final, left, listed, job, curl, shown, cancelling, closing>>

\* The running downloads are asked for their files by their entries as these are listed.
InUse(model) == \E e \in Entries : Running(e) /\ ToSet(listed[e]) \cap model # {}

\* A model is the files of a list, with the first of them there.
DeleteModel(l) ==
    /\ Call /\ final[l[1]] # "none" /\ ~InUse(ToSet(l))
    /\ final' = [f \in Files |-> IF f \in ToSet(l) THEN "none" ELSE final[f]]
    /\ UNCHANGED <<part, left, listed, job, curl, shown, cancelling, closing>>

Route ==
    \/ Terminate
    \/ \E e \in Entries : Start(e) \/ Cancel(e) \/ Forget(e) \/ Add(e) \/ DeletePartial(e)
    \/ \E l \in Lists : DeleteModel(l)

----------------------------------------------------------------------------
(***************************************************************************)
(* The library ends: each job is cancelled and waited for.  What it leaves *)
(* on the disk, and the entries, are there when it opens again.            *)
(***************************************************************************)
Close ==
    /\ ~closing /\ cancelling = None /\ (\E e \in Entries : Running(e))
    /\ closing' = TRUE
    /\ UNCHANGED <<disk, listed, job, curl, shown, cancelling, calls>>

CloseJob(e) ==
    /\ closing /\ Running(e) /\ ~job[e].cancel
    /\ job' = [job EXCEPT ![e].cancel = TRUE] /\ curl' = Terminated(e)
    /\ UNCHANGED <<disk, listed, shown, cancelling, closing, calls>>

OpenAgain ==
    /\ job' = [e \in Entries |-> NoJob] /\ curl' = [e \in Entries |-> "none"]
    /\ shown' = [e \in Entries |-> "none"] /\ cancelling' = None /\ closing' = FALSE
    /\ UNCHANGED <<part, final, listed, calls>>

Closed == closing /\ (\A e \in Entries : ~Running(e)) /\ OpenAgain /\ UNCHANGED left
\* Killed in any step: its threads are gone with it, its curls are not.
Crash ==
    /\ Crashes /\ (\E e \in Entries : Running(e)) /\ OpenAgain
    /\ left' = left \cup {File(e) : e \in {d \in Entries : curl[d] = "alive"}}

Next ==
    \/ \E e \in Entries : JobStep(e) \/ CurlWrites(e) \/ CurlEnds(e) \/ CloseJob(e)
    \/ \E f \in Files : LeftWrites(f) \/ LeftEnds(f)
    \/ Route \/ Close \/ Closed \/ Crash

\* Threads run, and a transfer ends some time, of itself or with its process.
Fairness ==
    /\ \A e \in Entries : WF_vars(JobStep(e)) /\ WF_vars(CurlEnds(e)) /\ WF_vars(CloseJob(e))
    /\ WF_vars(Terminate) /\ WF_vars(Closed)

Spec == Init /\ [][Next]_vars /\ Fairness

----------------------------------------------------------------------------
(***************************************************************************)
(* What the library promises.                                              *)
(***************************************************************************)
\* What the catalog names: the bytes where it names a digest, their number where it names a size.
AsNamed(f) ==
    /\ final[f] # "none"
    /\ f \in Digest => final[f] = "whole"
    /\ f \in Sized => final[f] \in Complete

\* "done" is said when every file of the job is there and as the catalog names it: after cuts,
\* resumes, kills, deletes and restarts.  A job whose entry was forgotten or replaced by one of
\* other files is out of delete_model's sight.
DoneIsWhole ==
    [][\A e \in Entries : AllFiles(e) =>
         job[e].hidden \/ \A f \in ToSet(job[e].files) : AsNamed(f)]_vars

\* Every download ends, whatever its attempts come to, and the library can always be closed.
DownloadsEnd == \A e \in Entries : Running(e) ~> ~Running(e)

\* Once a cancel was answered, no transfer of that job goes on.
CancelStops == \A e \in Entries : job[e].cancel /\ cancelling # e /\ At(e, "poll") => curl[e] # "alive"

\* A cancel ends the running curl, and no process that was waited for already.
EndsTheRunning == [][Terminate /\ job[cancelling].known => At(cancelling, "poll")]_vars

\* A model is not deleted while a running download writes one of its files.
DeleteSpares ==
    [][\A l \in Lists, e \in Entries :
         DeleteModel(l) /\ curl[e] = "alive" => File(e) \notin ToSet(l)]_vars
=============================================================================
