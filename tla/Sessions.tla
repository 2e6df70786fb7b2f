------------------------------- MODULE Sessions -------------------------------
(***************************************************************************)
(* Web sessions of one owner (AuthService): every login adds one and then  *)
(* takes away what is over the cap, in two statements, while other devices *)
(* log in, log out and end each other's sessions.                          *)
(***************************************************************************)
EXTENDS Integers, FiniteSets

CONSTANTS
  Device,
  Logins,       \* 1..n: sessions in the order of createdAt; n bounds the logins
  MaxSessions   \* MAX_SESSIONS_PER_USER

Off == [at |-> "off", id |-> 0, keep |-> {}]

VARIABLES
  sessions,   \* rows of Session
  cookie,     \* what each device was given
  login,      \* the login of each device between two statements
  made,       \* the sessions there ever were
  ended,      \* history: sessions ended on purpose, or expired
  overtaken   \* history: sessions made between the two statements of another login

svars == <<sessions, cookie, login, made, ended, overtaken>>

SInit ==
  /\ sessions = {} /\ cookie = [d \in Device |-> 0] /\ login = [d \in Device |-> Off]
  /\ made = {} /\ ended = {} /\ overtaken = {}

Newest(S) == {i \in S : Cardinality({j \in S : j > i}) < MaxSessions}
Oldest(S) == {i \in S : Cardinality({j \in S : j < i}) < MaxSessions}

\* The password was right: the row, before the answer.
Login(d) ==
  /\ login[d].at = "off"
  /\ \E i \in Logins :
       /\ \A j \in Logins : (j < i) = (j \in made)
       /\ made' = made \cup {i}
       /\ sessions' = sessions \cup {i}
       /\ login' = [login EXCEPT ![d] = [at |-> "find", id |-> i, keep |-> {}]]
       /\ overtaken' = IF \E e \in Device : login[e].at = "drop" THEN overtaken \cup {i} ELSE overtaken
  /\ UNCHANGED <<cookie, ended>>

\* pruneOldSessions: the newest ones stay; with fewer of them nothing is to do.
KeptOldest == Oldest(sessions)
Kept == Newest(sessions)
FindKept(d) ==
  /\ login[d].at = "find"
  /\ IF Cardinality(Kept) < MaxSessions
     THEN cookie' = [cookie EXCEPT ![d] = login[d].id] /\ login' = [login EXCEPT ![d] = Off]
     ELSE login' = [login EXCEPT ![d] = [@ EXCEPT !.at = "drop", !.keep = Kept]] /\ UNCHANGED cookie
  /\ UNCHANGED <<sessions, made, ended, overtaken>>

DropOthers(d) ==
  /\ login[d].at = "drop"
  /\ sessions' = sessions \cap login[d].keep
  /\ cookie' = [cookie EXCEPT ![d] = login[d].id] /\ login' = [login EXCEPT ![d] = Off]
  /\ UNCHANGED <<made, ended, overtaken>>

End(S) ==
  /\ sessions' = sessions \ S /\ ended' = ended \cup (S \cap sessions)
  /\ UNCHANGED <<cookie, login, made, overtaken>>

Logout(d) == cookie[d] \in sessions /\ End({cookie[d]})

\* revokeOtherSessions, and changeCredentials with a new password.
EndOthers(d) == cookie[d] \in sessions /\ End(sessions \ {cookie[d]})

\* revokeSession: not one's own.
EndOne(d, i) == cookie[d] \in sessions /\ i \in sessions \ {cookie[d]} /\ End({i})

\* pruneExpiredSessions: the time of life is one for all, so the oldest go first.
Expire == \E i \in sessions : (\A j \in sessions : i <= j) /\ End({i})

SNext ==
  \/ Expire
  \/ \E d \in Device : Login(d) \/ FindKept(d) \/ DropOthers(d) \/ Logout(d) \/ EndOthers(d)
                       \/ \E i \in Logins : EndOne(d, i)

SSpec == SInit /\ [][SNext]_svars

-----------------------------------------------------------------------------
(* When no login is under way there are no more sessions than the cap, whatever logins ran into each other.        *)
CapKept == (\A d \in Device : login[d].at = "off") => Cardinality(sessions) <= MaxSessions

\* A login that was answered is good for as long as nobody ended it and fewer than the cap are newer, unless it was
\* made between the two statements of another: that one takes it for an old one.
LoginStays ==
  \A d \in Device : cookie[d] # 0 =>
    \/ cookie[d] \in sessions \cup ended \cup overtaken
    \/ Cardinality({j \in made : j > cookie[d]}) >= MaxSessions
=============================================================================
