-------------------------------- MODULE MCMail --------------------------------
(***************************************************************************)
(* Small instances of the archive of letters: how they are fetched         *)
(* (MailFetch), what the archive holds (MailBox) and how their copies      *)
(* leave the provider (MailPurge). The three share no state; a behaviour   *)
(* is one of the service `part`.                                           *)
(***************************************************************************)
EXTENDS MailPurge, MailFetch, MailBox

VARIABLE part

\* Fetching: four letters of three days, the first out of order, the second a draft, the last too big.
FourLetters == 1..4
ThreeDays   == <<2, 1, 3, 3>>
AllKinds    == <<"plain", "draft", "plain", "huge">>

\* The purge: two letters with the same Message-ID, at Gmail.
OneMid == [l \in {"l1", "l2"} |-> "m"]

C(l, p) == [letter |-> l, place |-> p]
P(f, b) == [file |-> f, bytes |-> b]

Plainly == [copies |-> {C("a", "in"), C("b", "in")}, ours |-> {"z"}, mid |-> [a |-> "m", b |-> "n", z |-> "y"],
            size |-> [a |-> 1, b |-> 2, z |-> 9], parts |-> [a |-> <<>>, b |-> <<>>], gmail |-> FALSE, kept |-> {"none"},
            workers |-> {"w1", "w2"}, maxRows |-> 3, troubles |-> {}, maxTroubles |-> 0, maxCalls |-> 0]

FourAccounts == [
  \* Two letters with one Message-ID, in two folders of Gmail and through our own server.
  same |-> [Plainly EXCEPT !.copies = {C("a", "in"), C("a", "spam"), C("b", "local"), C("b", "in")},
                           !.mid = [a |-> "m", b |-> "m", z |-> "y"], !.gmail = TRUE,
                           !.troubles = {"fail", "crash"}, !.maxTroubles = 1],
  \* A letter of ours and the provider's copy of it, and two letters that share another Message-ID.
  sent |-> [Plainly EXCEPT !.copies = {C("a", "local:sent"), C("a", "sent"), C("b", "local"), C("c", "local")},
                           !.ours = {"a"}, !.mid = [a |-> "m", b |-> "n", c |-> "n", z |-> "y"],
                           !.size = [a |-> 1, b |-> 2, c |-> 3, z |-> 9], !.parts = [a |-> <<>>, b |-> <<>>, c |-> <<>>]],
  \* Two letters with the same part, binned, brought back and removed while they are fetched.
  binned |-> [Plainly EXCEPT !.parts = [a |-> <<P("f", "x")>>, b |-> <<P("f", "x")>>], !.workers = {"w1"},
                             !.troubles = {"fail", "crash"}, !.maxTroubles = 1, !.maxCalls = 3],
  \* Two letters whose parts have one name and differ.
  named |-> [Plainly EXCEPT !.parts = [a |-> <<P("f", "x")>>, b |-> <<P("f", "y")>>],
                            !.troubles = {"fail"}, !.maxTroubles = 1]]

\* The parts a behaviour is not of stay as they are at first.
Init ==
  /\ part \in {"fetch", "purge", "box"}
  /\ FetchInit /\ PurgeInit /\ BInit
  /\ part # "box" => account = "same"

Next ==
  /\ \/ part = "fetch" /\ FetchNext
     \/ part = "purge" /\ PurgeNext
     \/ part = "box" /\ BNext
  /\ UNCHANGED part
  /\ part # "fetch" => UNCHANGED fetchVars
  /\ part # "purge" => UNCHANGED pvars
  /\ part # "box" => UNCHANGED boxVars

Spec == Init /\ [][Next]_<<part, fetchVars, pvars, boxVars>>
=============================================================================
