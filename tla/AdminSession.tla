---------------------------- MODULE AdminSession ----------------------------
(***************************************************************************)
(* The session of the admin console: a password in localStorage, which all *)
(* tabs share and every request carries.  A 401 removes it, whichever      *)
(* password the request carried.  The server's password changes with a     *)
(* restart.                                                                *)
(***************************************************************************)
EXTENDS Integers

CONSTANTS
  Tabs,
  Passwords,
  MaxRotations     \* bound: changes of the server's password

NoPassword == "none"
NoRequest == "no request"

ASSUME SessionBounds == /\ MaxRotations \in Nat /\ Passwords # {}
                        /\ {NoPassword, NoRequest} \cap Passwords = {}

VARIABLES
  password,        \* ADMIN_PASSWORD of the server
  stored,          \* localStorage.admin_password
  at,              \* what each tab shows: "login" or "console"
  trying,          \* the password the login form of a tab has sent
  carried,         \* the header of the request of each tab
  rotations

sessionVars == <<password, stored, at, trying, carried, rotations>>

SessionInit ==
  /\ password = (CHOOSE p \in Passwords : TRUE) /\ stored = NoPassword
  /\ at = [t \in Tabs |-> "login"]
  /\ trying = [t \in Tabs |-> NoRequest] /\ carried = [t \in Tabs |-> NoRequest]
  /\ rotations = 0

Rotate ==
  /\ rotations < MaxRotations /\ rotations' = rotations + 1
  /\ \E p \in Passwords \ {password} : password' = p
  /\ UNCHANGED <<stored, at, trying, carried>>

(* AdminLogin: the form is disabled until the answer is there.             *)
Login(t) ==
  /\ at[t] = "login" /\ trying[t] = NoRequest
  /\ \E p \in Passwords : trying' = [trying EXCEPT ![t] = p]
  /\ UNCHANGED <<password, stored, at, carried, rotations>>

LoginAnswered(t) ==
  /\ trying[t] # NoRequest /\ trying' = [trying EXCEPT ![t] = NoRequest]
  /\ \/ trying[t] = password /\ stored' = trying[t] /\ at' = [at EXCEPT ![t] = "console"]
     \/ UNCHANGED <<stored, at>>   \* refused, or lost
  /\ UNCHANGED <<password, carried, rotations>>

(* AdminGuard, when a page of the console is opened.                       *)
Guard == IF stored = NoPassword THEN "login" ELSE "console"
Open(t) ==
  /\ trying[t] = NoRequest
  /\ at' = [at EXCEPT ![t] = Guard]
  /\ carried' = [carried EXCEPT ![t] = NoRequest]
  /\ UNCHANGED <<password, stored, trying, rotations>>

(* adminHeaders: the password at the time of the request, if any.          *)
Headers == stored

(* A page of the console asks for what it shows.                           *)
Fetch(t) ==
  /\ at[t] = "console" /\ carried[t] = NoRequest
  /\ carried' = [carried EXCEPT ![t] = Headers]
  /\ UNCHANGED <<password, stored, at, trying, rotations>>

Forgotten == stored' = NoPassword   \* adminLogout

(* adminFetch: 401 removes the password and loads the login page.          *)
ForgetOnly(t) == Forgotten /\ UNCHANGED <<at, trying>>   \* mutant
Refuse(t) ==
  /\ Forgotten
  /\ at' = [at EXCEPT ![t] = "login"] /\ trying' = [trying EXCEPT ![t] = NoRequest]

FetchAnswered(t) ==
  /\ carried[t] # NoRequest /\ carried' = [carried EXCEPT ![t] = NoRequest]
  /\ \/ carried[t] = password /\ UNCHANGED <<stored, at, trying>>
     \/ carried[t] # password /\ Refuse(t)
  /\ UNCHANGED <<password, rotations>>

(* Any other error is dropped by the page, and the session goes on.        *)
GoOn(t) == UNCHANGED <<stored, at>>

FetchFails(t) ==
  /\ carried[t] # NoRequest /\ carried' = [carried EXCEPT ![t] = NoRequest]
  /\ GoOn(t)
  /\ UNCHANGED <<password, trying, rotations>>

Logout(t) ==
  /\ at[t] = "console"
  /\ Forgotten /\ at' = [at EXCEPT ![t] = "login"]
  /\ UNCHANGED <<password, trying, carried, rotations>>

SessionNext ==
  \/ Rotate
  \/ \E t \in Tabs : \/ Login(t) \/ LoginAnswered(t) \/ Open(t) \/ Fetch(t)
                     \/ FetchAnswered(t) \/ FetchFails(t) \/ Logout(t)
SessionSpec == SessionInit /\ [][SessionNext]_sessionVars

-----------------------------------------------------------------------------
(***************************************************************************)
(* A console whose password the server does not take ends at the login     *)
(* page, if it goes on asking and is answered.                             *)
(***************************************************************************)
RefusedConsoleEnds ==
  \A t \in Tabs : (at[t] = "console" /\ stored # password)
                    ~> (at[t] = "login" \/ stored = password)
=============================================================================
