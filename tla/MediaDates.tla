----------------------------- MODULE MediaDates -----------------------------
(***************************************************************************)
(* media/media.service.ts: the row MediaMeta of one content, in which the  *)
(* feed and the detail page read the date of the shot. Uploads, unpacked   *)
(* archives, the worker of the previews and the detail page all write it,  *)
(* none of them in a transaction.                                          *)
(*                                                                         *)
(* What a parse finds, from what it is given to read: "nothing" at all,    *)
(* "some" fields that do not count (make and model), "size" of the frame   *)
(* or duration but no date, or the "date" of the tags.                     *)
(***************************************************************************)
EXTENDS Integers, FiniteSets

CONSTANTS
  Files,      \* the file: [video, sharp, at], at[1..3] being what its head, 4 MB and all of it yield
  Proc,       \* callers
  MaxJobs, MaxFaults   \* bounds: calls, and reads of the store that fail

VARIABLES
  file,
  row,        \* [there, date, raw]
  proc,       \* caller -> [job, pc, keep, stale]
  bg,         \* parses of the video started in the background and not finished
  jobs, faults,
  given,      \* history: the date that was last given from outside: "none", "now", "sidecar"
  raced,      \* history: a date was given by somebody who had not seen that the tags had one
  cut         \* history: a poorer parse was written over the date of the tags

NoProc == [job |-> "none", pc |-> "idle", keep |-> FALSE, stale |-> FALSE]

MInit ==
  /\ file \in Files
  /\ row = [there |-> FALSE, date |-> "none", raw |-> "none"]
  /\ proc = [p \in Proc |-> NoProc]
  /\ bg = 0 /\ jobs = 0 /\ faults = 0 /\ given = "none" /\ raced = FALSE /\ cut = FALSE

-----------------------------------------------------------------------------
HasUseful   == row.raw \in {"some", "size", "date"}
HasComplete == row.raw \in {"size", "date"}

Go(p, pc) == IF pc = "end" THEN [proc EXCEPT ![p] = NoProc] ELSE [proc EXCEPT ![p].pc = pc]
\* Where a caller of captureAny goes on: the date it knows itself, if it has one to give.
After(p) == IF proc[p].job \in {"photos", "archive"} THEN "look" ELSE "end"

\* What is found is written over what is there; columns it has nothing for stay as they are.
Stored(found, next) ==
  /\ row' = IF found = "nothing" THEN row
            ELSE [there |-> TRUE, date |-> IF found = "date" THEN "tag" ELSE row.date, raw |-> found]
  /\ cut' = (cut \/ (found \in {"some", "size"} /\ row.raw = "date"))
  /\ proc' = [q \in Proc |-> IF next[q].pc = "fill" /\ found = "date" THEN [next[q] EXCEPT !.stale = TRUE] ELSE next[q]]

\* A row without anything in it, for the feed, unless there is one.
Ensured(date) == IF row.there THEN row ELSE [there |-> TRUE, date |-> date, raw |-> "none"]

Fails == faults < MaxFaults /\ faults' = faults + 1

-----------------------------------------------------------------------------
(* A call: an upload or a move into the photos, into another zone, a file  *)
(* out of an archive, the worker with the file at hand, the detail page.   *)
Begin(p, job) ==
  /\ proc[p].pc = "idle" /\ jobs < MaxJobs
  /\ jobs' = jobs + 1
  /\ proc' = [proc EXCEPT ![p] = [NoProc EXCEPT !.job = job, !.pc =
       CASE job \in {"photos", "files", "archive"} -> "check" [] job = "worker" -> "exists" [] job = "page" -> "useful"]]
  /\ UNCHANGED <<file, row, bg, faults, given, raced, cut>>

(* captureAny, unless the parse is complete already: a video gets its row  *)
(* at once and is parsed in the background; an image is parsed from its    *)
(* head, then - when sharp knows the type - from more and from all of it.  *)
Check(p) ==
  /\ proc[p].pc = "check"
  /\ proc' = Go(p, IF HasComplete THEN After(p) ELSE IF file.video THEN "row" ELSE "head")
  /\ UNCHANGED <<file, row, bg, jobs, faults, given, raced, cut>>

VideoRow(p) ==
  /\ proc[p].pc = "row"
  /\ row' = Ensured("now") /\ bg' = bg + 1
  /\ proc' = Go(p, After(p))
  /\ given' = IF row.there THEN given ELSE "now"
  /\ UNCHANGED <<file, jobs, faults, raced, cut>>

Head(p) ==
  LET more == IF file.sharp THEN "deep" ELSE "ensure" IN
  /\ proc[p].pc = "head"
  /\ \/ Stored(file.at[1], Go(p, IF file.at[1] \in {"size", "date"} THEN After(p) ELSE more)) /\ UNCHANGED faults
     \/ Fails /\ proc' = Go(p, more) /\ UNCHANGED <<row, cut>>
  /\ UNCHANGED <<file, bg, jobs, given, raced>>

\* extractDetail of an image; what is thrown on the way is swallowed.
AfterDetail(p) == IF proc[p].job = "page" THEN "end" ELSE "ensure"

Deep(p) ==
  /\ proc[p].pc = "deep"
  /\ \/ /\ Stored(file.at[2], Go(p, IF file.at[2] \in {"size", "date"} THEN AfterDetail(p) ELSE "whole"))
        /\ UNCHANGED faults
     \/ Fails /\ proc' = Go(p, AfterDetail(p)) /\ UNCHANGED <<row, cut>>
  /\ UNCHANGED <<file, bg, jobs, given, raced>>

Whole(p) ==
  /\ proc[p].pc = "whole"
  /\ \/ Stored(file.at[3], Go(p, AfterDetail(p))) /\ UNCHANGED faults
     \/ Fails /\ proc' = Go(p, AfterDetail(p)) /\ UNCHANGED <<row, cut>>
  /\ UNCHANGED <<file, bg, jobs, given, raced>>

EnsureRow(p) ==
  /\ proc[p].pc = "ensure"
  /\ row' = Ensured("none")
  /\ proc' = Go(p, After(p))
  /\ UNCHANGED <<file, bg, jobs, faults, given, raced, cut>>

\* The background parse of a video: downloaded and read whole, or given up.
Background ==
  /\ bg > 0 /\ bg' = bg - 1
  /\ \/ Stored(file.at[3], proc) /\ UNCHANGED faults
     \/ Fails /\ UNCHANGED <<row, cut, proc>>
  /\ UNCHANGED <<file, jobs, given, raced>>

-----------------------------------------------------------------------------
(* fillDateAndGeo: whether the date is one of the tags is read first, and  *)
(* the date is written afterwards.                                         *)
KeepsAny   == row.date # "none"
KeepsNone  == FALSE
Keeps == row.date # "none" /\ row.raw = "date"

Look(p) ==
  /\ proc[p].pc = "look"
  /\ proc' = [proc EXCEPT ![p].pc = "fill", ![p].keep = Keeps]
  /\ UNCHANGED <<file, row, bg, jobs, faults, given, raced, cut>>

Fill(p) ==
  LET date == IF proc[p].job = "photos" THEN "now" ELSE "sidecar" IN
  /\ proc[p].pc = "fill"
  /\ row' = IF proc[p].keep THEN row ELSE [row EXCEPT !.there = TRUE, !.date = date]
  /\ raced' = (raced \/ (proc[p].stale /\ ~proc[p].keep))
  /\ given' = date
  /\ proc' = [proc EXCEPT ![p] = NoProc]
  /\ UNCHANGED <<file, bg, jobs, faults, cut>>

(* The worker parses the file it has downloaded: an image that has no row, *)
(* a video whose parse is not complete. The page parses what has no field  *)
(* at all.                                                                 *)
Exists(p) ==
  /\ proc[p].pc = "exists"
  /\ proc' = Go(p, IF IF file.video THEN HasComplete ELSE row.there \/ ~file.sharp THEN "end" ELSE "local")
  /\ UNCHANGED <<file, row, bg, jobs, faults, given, raced, cut>>

Local(p) ==
  /\ proc[p].pc = "local"
  /\ \/ Stored(file.at[3], Go(p, "end")) /\ UNCHANGED faults
     \/ Fails /\ proc' = Go(p, "end") /\ UNCHANGED <<row, cut>>
  /\ UNCHANGED <<file, bg, jobs, given, raced>>

Useful(p) ==
  /\ proc[p].pc = "useful"
  /\ proc' = Go(p, CASE HasUseful \/ ~(file.video \/ file.sharp) -> "end" [] file.video -> "local" [] OTHER -> "deep")
  /\ UNCHANGED <<file, row, bg, jobs, faults, given, raced, cut>>

MNext ==
  \/ \E p \in Proc :
       \/ \E job \in {"photos", "files", "archive", "worker", "page"} : Begin(p, job)
       \/ Check(p) \/ VideoRow(p) \/ Head(p) \/ Deep(p) \/ Whole(p) \/ EnsureRow(p)
       \/ Look(p) \/ Fill(p) \/ Exists(p) \/ Local(p) \/ Useful(p)
  \/ Background

mvars == <<file, row, proc, bg, jobs, faults, given, raced, cut>>

-----------------------------------------------------------------------------
(* The date of the tags is the date of the shot, unless somebody gave a    *)
(* date without having seen it (media.service reads before it writes); a   *)
(* content whose tags have none bears the date that was last given, an     *)
(* archive's after the day of the upload; and whatever was captured has a  *)
(* row to be seen by.                                                      *)
DatesSound ==
  /\ row.raw = "date" /\ ~raced => row.date = "tag"
  /\ row.raw # "date" /\ ~cut /\ given # "none" => row.date = given
  /\ \A p \in Proc : proc[p].pc = "look" => row.there

(* What the comment on hasDetailedMeta says of the detail page: fields     *)
(* that do not count do not close the way to the full parse.               *)
OpenedIsParsed ==
  [][\A p \in Proc : file.sharp /\ proc[p].pc = "useful" /\ proc'[p].pc = "idle" => HasComplete]_mvars
=============================================================================
