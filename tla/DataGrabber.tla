----------------------------- MODULE DataGrabber -----------------------------
(***************************************************************************)
(* The downloader data_download/binance_future/binance_data_grabber.py.    *)
(*                                                                         *)
(* run() asks Binance for one interval after another of every data type,   *)
(* at most MaxOngoing at a time, and keeps a row per request in a table.   *)
(* A thread per row waits for its link, downloads the file and marks the   *)
(* row under the lock.  At the end of every turn the table is written to   *)
(* the progress file, from which a later start goes on.                    *)
(*                                                                         *)
(* Intervals are numbered; Last is the last one that ends by end_date.     *)
(* The program may be killed at any moment and started again.              *)
(***************************************************************************)
EXTENDS Integers, Sequences, FiniteSets, FiniteSetsExt

CONSTANTS
  Types,       \* data_types
  Last,        \* intervals between start_date and end_date
  MaxOngoing,  \* max_ongoing_downloads (2)
  MaxStarts    \* bound: restarts after a kill or an error

Intervals == 1 .. Last

ASSUME GrabberAssumption ==
  /\ IsFiniteSet(Types) /\ Last \in Nat /\ MaxOngoing \in Nat \ {0} /\ MaxStarts \in Nat

\* file_path: "-" while the file is awaited, "file" its name, "msg" the text of
\* a refusal, "torn" what read_csv makes of a row cut in the middle.
Rows == [type : Types, n : Intervals, path : {"-", "file", "msg", "torn"}, ongoing : BOOLEAN]

VARIABLES
  pc,       \* run: "type", "request", "check", "start", "write", "last", "ended", "dead"
  todo,     \* data types new_request has yet to go through
  left,     \* requests it may still make for the one it is at
  df,       \* the table
  lock,     \* whether self.lock is taken
  th,       \* what the thread of each row is at
  csv,      \* what the progress file holds
  disk,     \* what there is of each file: "none", "part" or "closed"
  starts    \* bound: restarts so far

main == <<pc, todo, left>>
vars == <<main, df, lock, th, csv, disk, starts>>

MaxRows == Last * Cardinality(Types)

Init == /\ pc = "type" /\ todo = Types /\ left = 0
        /\ df = <<>> /\ csv = <<>> /\ lock = FALSE
        /\ th = [i \in 1 .. MaxRows |-> "none"]
        /\ disk = [f \in Types \X Intervals |-> "none"]
        /\ starts = 0
-----------------------------------------------------------------------------
(* new_request *)

\* The rows of a type that wait for their file.
Ongoing(t) == {i \in DOMAIN df : df[i].type = t /\ df[i].path = "-"}

Current == CHOOSE t \in todo : TRUE

NextType == /\ pc = "type"
            /\ IF todo = {} THEN pc' = "check" /\ UNCHANGED <<todo, left>>
               ELSE /\ pc' = "request" /\ UNCHANGED todo
                    /\ left' = MaxOngoing - Cardinality(Ongoing(Current))
            /\ UNCHANGED <<df, lock, th, csv, disk, starts>>

NextDownloaded(t) ==                        \* fault: goes by the last file, not by the last row
  1 + Max({0} \cup {df[i].n : i \in {j \in DOMAIN df : df[j].type = t /\ df[j].path = "file"}})

\* A request starts at the end_time of the last row of its type, or at start_date.
NextInterval(t) == LET own == {i \in DOMAIN df : df[i].type = t}
                   IN IF own = {} THEN 1 ELSE df[Max(own)].n + 1

\* An interval that ends after end_date is not asked for.
WithinDates(n) == n <= Last

\* The answer has an id, or the text of a refusal: the row that is appended
\* then counts as done.
Request == /\ pc = "request" /\ left > 0 /\ ~lock
           /\ WithinDates(NextInterval(Current))
           /\ \E path \in {"-", "msg"} :
                df' = Append(df, [type |-> Current, n |-> NextInterval(Current),
                                  path |-> path, ongoing |-> FALSE])
           /\ left' = left - 1
           /\ UNCHANGED <<pc, todo, lock, th, csv, disk, starts>>

\* The call raises, or the refusal has no text: run is over, its threads go on.
RequestRaises == /\ pc = "request" /\ left > 0
                 /\ WithinDates(NextInterval(Current))
                 /\ pc' = "dead"
                 /\ UNCHANGED <<todo, left, df, lock, th, csv, disk, starts>>

TypeDone == /\ pc = "request"
            /\ left <= 0 \/ ~WithinDates(NextInterval(Current))
            /\ pc' = "type" /\ todo' = todo \ {Current}
            /\ UNCHANGED <<left, df, lock, th, csv, disk, starts>>
-----------------------------------------------------------------------------
(* run *)

NoneToStart == \A i \in DOMAIN df : df[i].path # "-" \/ df[i].ongoing   \* fault: looks at what is to be started

\* No row waits for its file.
NoneLeft == \A i \in DOMAIN df : df[i].path # "-"

Check == /\ pc = "check"
         /\ IF NoneLeft THEN ~lock /\ pc' = "last" /\ lock' = TRUE
                        ELSE pc' = "start" /\ UNCHANGED lock
         /\ UNCHANGED <<todo, left, df, th, csv, disk, starts>>

\* The rows to start are picked without the lock.
ToStart == {i \in DOMAIN df : df[i].path = "-" /\ ~df[i].ongoing}

StartThread(i) == /\ pc = "start" /\ i \in ToStart /\ ~lock
                  /\ df' = [df EXCEPT ![i].ongoing = TRUE]
                  /\ th' = [th EXCEPT ![i] = "ask"]
                  /\ UNCHANGED <<main, lock, csv, disk, starts>>

\* write_to_csv holds the lock while the file is rewritten.
WriteBegin == /\ pc = "start" /\ ToStart = {} /\ ~lock
              /\ pc' = "write" /\ lock' = TRUE
              /\ UNCHANGED <<todo, left, df, th, csv, disk, starts>>

\* sleep(30), and the loop again; or run returns.
WriteEnd == /\ pc \in {"write", "last"}
            /\ csv' = df /\ lock' = FALSE
            /\ pc' = IF pc = "last" THEN "ended" ELSE "type"
            /\ todo' = Types
            /\ UNCHANGED <<left, df, th, disk, starts>>
-----------------------------------------------------------------------------
(* download_th, for row i.  While the link is being prepared the thread asks
   again and again. *)

File(i) == <<df[i].type, df[i].n>>

LinkIsEnough(i) ==                          \* fault: marks the row when the copy begins
  /\ th[i] = "ask" /\ th' = [th EXCEPT ![i] = "mark"]
  /\ disk' = [disk EXCEPT ![File(i)] = "part"]
  /\ UNCHANGED <<main, df, lock, csv, starts>>

LinkReady(i) == /\ th[i] = "ask"
                /\ th' = [th EXCEPT ![i] = "copy"]
                /\ disk' = [disk EXCEPT ![File(i)] = "part"]
                /\ UNCHANGED <<main, df, lock, csv, starts>>

Copied(i) == /\ th[i] = "copy"
             /\ th' = [th EXCEPT ![i] = "mark"]
             /\ disk' = [disk EXCEPT ![File(i)] = "closed"]
             /\ UNCHANGED <<main, df, lock, csv, starts>>

\* No link in the answer, or a call raises: nothing tells run.
ThreadEnds(i) == /\ th[i] \in {"ask", "copy"}
                 /\ th' = [th EXCEPT ![i] = "gone"]
                 /\ UNCHANGED <<main, df, lock, csv, disk, starts>>

\* Under the lock: file_path, then ongoing.
Mark(i) == /\ th[i] = "mark" /\ ~lock
           /\ df' = [df EXCEPT ![i].path = "file"]
           /\ th' = [th EXCEPT ![i] = "release"] /\ lock' = TRUE
           /\ UNCHANGED <<main, csv, disk, starts>>

Release(i) == /\ th[i] = "release"
              /\ df' = [df EXCEPT ![i].ongoing = FALSE]
              /\ th' = [th EXCEPT ![i] = "gone"] /\ lock' = FALSE
              /\ UNCHANGED <<main, csv, disk, starts>>
-----------------------------------------------------------------------------
(* The program is killed and started again *)

\* What a kill leaves of the file while it is rewritten: it begins with whole
\* rows, and the next one may have lost the columns from file_path on.
Torn == LET cut(n) == SubSeq(df, 1, n)
        IN {cut(n) : n \in 0 .. Len(df)}
           \cup {Append(cut(n - 1), [df[n] EXCEPT !.path = "torn"]) : n \in 1 .. Len(df)}

ReadProgress(s) == s                        \* fault: ongoing comes back as it was

\* read_csv, then assign(ongoing=False); an empty file starts a new table.
Loaded(s) == [i \in DOMAIN s |-> [s[i] EXCEPT !.ongoing = FALSE]]

Restart == /\ starts < MaxStarts
           /\ \E s \in IF pc \in {"write", "last"} THEN Torn ELSE {csv} :
                csv' = s /\ df' = Loaded(s)
           /\ starts' = starts + 1
           /\ pc' = "type" /\ todo' = Types /\ left' = 0
           /\ lock' = FALSE /\ th' = [i \in 1 .. MaxRows |-> "none"]
           /\ UNCHANGED disk
-----------------------------------------------------------------------------
Run == \/ NextType \/ Request \/ TypeDone \/ Check \/ WriteBegin \/ WriteEnd
       \/ \E i \in DOMAIN df : StartThread(i)

Thread(i) == LinkReady(i) \/ Copied(i) \/ ThreadEnds(i) \/ Mark(i) \/ Release(i)

Next == \/ Run \/ RequestRaises \/ Restart
        \/ \E i \in 1 .. MaxRows : Thread(i)

Spec == Init /\ [][Next]_vars

\* run and the threads are scheduled, calls return or raise, links get ready.
\* The lock is handed to each thread that waits for it again and again.
FairSpec == /\ Spec /\ WF_vars(Run)
            /\ \A i \in 1 .. MaxRows : WF_vars(Thread(i)) /\ SF_vars(Mark(i))
-----------------------------------------------------------------------------
(* Properties *)

TypeOK ==
  /\ pc \in {"type", "request", "check", "start", "write", "last", "ended", "dead"}
  /\ todo \in SUBSET Types /\ left \in Int
  /\ df \in Seq(Rows) /\ Len(df) <= MaxRows
  /\ csv \in Seq(Rows) /\ Len(csv) <= MaxRows
  /\ lock \in BOOLEAN
  /\ th \in [1 .. MaxRows -> {"none", "ask", "copy", "mark", "release", "gone"}]
  /\ disk \in [Types \X Intervals -> {"none", "part", "closed"}]
  /\ starts \in 0 .. MaxStarts

\* The rows of a type are its intervals from the first one on, without a hole
\* and without a repetition, whatever was refused, failed or lost with the
\* program: also in what a kill leaves of the progress file.
Consecutive(s) == \A i \in DOMAIN s :
  s[i].n = 1 + Cardinality({j \in DOMAIN s : j < i /\ s[j].type = s[i].type})

NoHole == Consecutive(df) /\ Consecutive(csv)

\* No more than MaxOngoing rows of a type wait for their file, after a restart
\* as well, when they have no thread yet.
FewOngoing == \A t \in Types : Cardinality(Ongoing(t)) <= MaxOngoing

\* run, which looks without the lock, never takes a row for one to start while
\* its thread still works on it, so no file is written by two threads.
OneThread == \A i \in ToStart : th[i] = "none"

\* A row that names its file has it closed on disk, and the progress file is
\* never ahead of the disk, whenever the program was killed.
RecordedIsThere ==
  \A s \in {df, csv} : \A i \in DOMAIN s :
    s[i].path = "file" => disk[<<s[i].type, s[i].n>>] = "closed"

\* When run returns, nothing is under way any more and the progress file has
\* it all, so that another start goes on after it.  That need not be the end of
\* the data: run also returns when a turn meets nothing but refusals, or when
\* the last files come between its count of the waiting rows and its look at them.
EndIsRecorded == pc = "ended" => /\ csv = df /\ \A t \in Types : Ongoing(t) = {}
                                 /\ \A i \in 1 .. MaxRows : th[i] \in {"none", "gone"}

\* run ends, unless a request raises or a thread ends without its file: then
\* the row waits for ever, and so does run.
Stuck == \E i \in DOMAIN df : df[i].path = "-" /\ th[i] = "gone"

EndsUnlessStuck == <>(pc \in {"ended", "dead"} \/ Stuck)
=============================================================================
