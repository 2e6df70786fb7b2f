---------------------------- MODULE FaviconCache ----------------------------
(***************************************************************************)
(* mail/mail-favicon.service.ts: the logo of a sender's domain, fetched by *)
(* the server, a few at a time, and kept in a table by domain.             *)
(***************************************************************************)
EXTENDS Integers, Sequences, FiniteSets, SequencesExt

CONSTANTS
  Proc,       \* requests
  Site,       \* domain -> the places an icon is to be had from: "direct", "link", "google"
  Links,      \* domains whose page has a link to an icon, be it to be had or not
  MaxConcurrent,       \* MAX_CONCURRENT_FETCH
  MaxGets, MaxHiccups, MaxDays   \* bounds: requests, fetches that fail, times it gets later

VARIABLES
  cache,      \* domain -> [there, icon, age]; age "fresh", "day" (may be asked again) or "month" (may go)
  active,     \* fetches that hold a slot, as the counter has it
  waiting,    \* requests that wait for a slot, in order
  proc,       \* request -> [pc, d, icon]
  cleaned,    \* the table was cleaned within the hour
  gets, hiccups, days

Domain  == DOMAIN Site
NoProc  == [pc |-> "idle", d |-> CHOOSE d \in Domain : TRUE, icon |-> FALSE]
Holders == {p \in Proc : proc[p].pc = "fetch"}

FInit ==
  /\ cache = [d \in Domain |-> [there |-> FALSE, icon |-> FALSE, age |-> "fresh"]]
  /\ active = 0 /\ waiting = <<>> /\ proc = [p \in Proc |-> NoProc] /\ cleaned = FALSE
  /\ gets = 0 /\ hiccups = 0 /\ days = 0

\* What the table answers by itself: an icon however old, or that there was none a short while ago.
Answers(c) == c.there /\ (c.icon \/ c.age = "fresh")

Get(p, d) ==
  /\ proc[p].pc = "idle" /\ gets < MaxGets
  /\ gets' = gets + 1
  /\ proc' = IF Answers(cache[d]) THEN proc ELSE [proc EXCEPT ![p] = [pc |-> "ask", d |-> d, icon |-> FALSE]]
  /\ UNCHANGED <<cache, active, waiting, cleaned, hiccups, days>>

Acquire(p) ==
  /\ proc[p].pc = "ask"
  /\ IF active < MaxConcurrent
       THEN active' = active + 1 /\ proc' = [proc EXCEPT ![p].pc = "fetch"] /\ UNCHANGED waiting
       ELSE waiting' = Append(waiting, p) /\ proc' = [proc EXCEPT ![p].pc = "wait"] /\ UNCHANGED active
  /\ UNCHANGED <<cache, cleaned, gets, hiccups, days>>

\* The slot goes over to whoever waits first, and only without one the counter goes down.
ReleasedTwice == IF active > 0 THEN active - 1 ELSE 0
Released == IF waiting # <<>> THEN active ELSE IF active > 0 THEN active - 1 ELSE 0

(* /favicon.ico, then the link of the page, whose fetch is not waited for  *)
(* before its answer is taken, then Google.                                *)
Found(d, failed) ==
  LET ok(s) == s \in Site[d] \ failed IN
    ok("direct") \/ (IF d \in Links /\ "page" \notin failed THEN ok("link") ELSE ok("google"))

Fetch(p) ==
  /\ proc[p].pc = "fetch"
  /\ \E failed \in {{}, {"direct"}, {"direct", "page"}, {"direct", "link", "google"}} :
       /\ failed # {} => hiccups < MaxHiccups
       /\ hiccups' = IF failed = {} THEN hiccups ELSE hiccups + 1
       /\ LET done == [proc EXCEPT ![p].pc = "write", ![p].icon = Found(proc[p].d, failed)] IN
            proc' = IF waiting = <<>> THEN done ELSE [done EXCEPT ![Head(waiting)].pc = "fetch"]
  /\ active' = Released
  /\ waiting' = IF waiting = <<>> THEN waiting ELSE Tail(waiting)
  /\ UNCHANGED <<cache, cleaned, gets, days>>

\* The row is written whatever it says, and once an hour rows that are very old go.
Write(p) ==
  LET d == proc[p].d
      written == [cache EXCEPT ![d] = [there |-> TRUE, icon |-> proc[p].icon, age |-> "fresh"]] IN
  /\ proc[p].pc = "write"
  /\ cache' = IF cleaned THEN written
              ELSE [e \in Domain |-> IF written[e].age = "month" THEN [written[e] EXCEPT !.there = FALSE] ELSE written[e]]
  /\ cleaned' = TRUE
  /\ proc' = [proc EXCEPT ![p] = NoProc]
  /\ UNCHANGED <<active, waiting, gets, hiccups, days>>

Later ==
  /\ days < MaxDays /\ days' = days + 1
  /\ cleaned' = FALSE
  /\ cache' = [d \in Domain |-> [cache[d] EXCEPT !.age = IF @ = "fresh" THEN "day" ELSE "month"]]
  /\ UNCHANGED <<active, waiting, proc, gets, hiccups>>

FNext == Later \/ \E p \in Proc : Acquire(p) \/ Fetch(p) \/ Write(p) \/ \E d \in Domain : Get(p, d)

fvars == <<cache, active, waiting, proc, cleaned, gets, hiccups, days>>

-----------------------------------------------------------------------------
(* The counter tells the fetches there are, there are no more of them than *)
(* slots, and nobody waits while a slot is free.                           *)
SlotsAreCounted ==
  /\ active = Cardinality(Holders) /\ active <= MaxConcurrent
  /\ waiting # <<>> => active = MaxConcurrent
  /\ ToSet(waiting) = {p \in Proc : proc[p].pc = "wait"}

(* What the head of the class says of its three places: a domain whose     *)
(* icon Google has is not left without one.                                *)
GoogleIsAsked ==
  [][\A p \in Proc : proc[p].pc = "fetch" /\ proc'[p].pc = "write" /\ hiccups' = hiccups /\ "google" \in Site[proc[p].d]
       => proc'[p].icon]_fvars
=============================================================================
