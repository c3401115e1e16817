-------------------------- MODULE PublisherSession --------------------------
(***************************************************************************)
(* The publisher's dashboard in several tabs.  The token is read anew from *)
(* the address or from localStorage, which all tabs share, whenever the    *)
(* page renders; when it differs from the last render's the page asks for  *)
(* everything again.  Whatever answer comes is shown.                      *)
(***************************************************************************)
EXTENDS Integers

CONSTANTS
  Publishers,      \* and their tokens
  Links,           \* bound: the tokens that are in an address
  Windows          \* the tabs

ASSUME PublisherBounds == Links \subseteq Publishers

VARIABLES
  token,           \* localStorage.publisher_token
  url,             \* the token in the address of each tab, if any
  view,            \* "login" or "dashboard"
  entering,        \* whose password the login form of a tab has sent
  seen,            \* the token of the last render
  parts,           \* whose profile and whose numbers are shown
  error,           \* getPublisherProfile failed
  pending,         \* requests under way: part and publisher
  blurred          \* history: the token changed while requests were under
                   \* way, or one failed

publisherVars == <<token, url, view, entering, seen, parts, error, pending, blurred>>

Nobody == "nobody"
Nothing == [profile |-> Nobody, numbers |-> Nobody]

PublisherInit ==
  /\ token = Nobody
  /\ url = [w \in Windows |-> Nobody] /\ view = [w \in Windows |-> "login"]
  /\ entering = [w \in Windows |-> Nobody] /\ seen = [w \in Windows |-> Nobody]
  /\ parts = [w \in Windows |-> Nothing] /\ error = [w \in Windows |-> FALSE]
  /\ pending = [w \in Windows |-> {}] /\ blurred = [w \in Windows |-> FALSE]

(* The effects that depend on the token.                                   *)
ProfileOnly(p) == {[part |-> "profile", of |-> p]}   \* mutant
AskAll(p) == [part : {"profile", "numbers"}, of : {p}]

(* The login page; requests of the dashboard that was left are ignored.    *)
ToLogin(w) ==
  /\ view' = [view EXCEPT ![w] = "login"] /\ pending' = [pending EXCEPT ![w] = {}]
  /\ UNCHANGED <<seen, parts, error, blurred>>

(* The dashboard is opened, as p.                                          *)
OpenAs(w, p) ==
  /\ view' = [view EXCEPT ![w] = "dashboard"]
  /\ seen' = [seen EXCEPT ![w] = p] /\ parts' = [parts EXCEPT ![w] = Nothing]
  /\ error' = [error EXCEPT ![w] = FALSE] /\ pending' = [pending EXCEPT ![w] = AskAll(p)]
  /\ blurred' = [blurred EXCEPT ![w] = FALSE]

OpenDashboard(w) ==
  /\ entering[w] = Nobody
  /\ \E p \in Links \cup {Nobody} :
       /\ url' = [url EXCEPT ![w] = p]
       /\ LET key == IF p # Nobody THEN p ELSE token
          IN  IF key = Nobody THEN ToLogin(w) ELSE OpenAs(w, key)
  /\ UNCHANGED <<token, entering>>

EnterPassword(w) ==
  /\ view[w] = "login" /\ entering[w] = Nobody
  /\ \E p \in Publishers : entering' = [entering EXCEPT ![w] = p]
  /\ UNCHANGED <<token, url, view, seen, parts, error, pending, blurred>>

(* The token is stored and the dashboard opened, or the login is refused.  *)
EnterAnswered(w) ==
  /\ entering[w] # Nobody /\ entering' = [entering EXCEPT ![w] = Nobody]
  /\ \/ /\ token' = entering[w] /\ url' = [url EXCEPT ![w] = Nobody]
        /\ OpenAs(w, entering[w])
     \/ UNCHANGED <<token, url, view, seen, parts, error, pending, blurred>>

(* A render: no token leads to the login page, another one asks again.     *)
Key(w) == IF url[w] # Nobody THEN url[w] ELSE token

Rendered(w, waiting, failed) ==
  /\ view' = [view EXCEPT ![w] = IF Key(w) = Nobody THEN "login" ELSE @]
  /\ seen' = [seen EXCEPT ![w] = IF Key(w) = Nobody THEN @ ELSE Key(w)]
  /\ pending' = [pending EXCEPT ![w] =
       IF Key(w) = Nobody THEN {}
       ELSE waiting \cup IF Key(w) = seen[w] THEN {} ELSE AskAll(Key(w))]
  /\ blurred' = [blurred EXCEPT ![w] =
       \/ @ /\ (waiting # {} \/ Key(w) = seen[w])
       \/ failed
       \/ Key(w) # seen[w] /\ waiting # {}]

(* A button of the dashboard is pressed.                                   *)
Press(w) ==
  /\ view[w] = "dashboard" /\ ~error[w] /\ parts[w].profile # Nobody
  /\ Rendered(w, pending[w], FALSE)
  /\ UNCHANGED <<token, url, entering, parts, error>>

ShowPart(w) ==
  /\ \E r \in pending[w] :
       /\ parts' = [parts EXCEPT ![w][r.part] = r.of]
       /\ Rendered(w, pending[w] \ {r}, FALSE)
  /\ UNCHANGED <<token, url, entering, error>>

(* Only a failed profile is reported, for as long as the page is open.     *)
PartFails(w) ==
  /\ \E r \in pending[w] :
       \/ /\ r.part = "profile" /\ error' = [error EXCEPT ![w] = TRUE]
          /\ Rendered(w, pending[w] \ {r}, TRUE)
       \/ /\ r.part = "numbers" /\ pending' = [pending EXCEPT ![w] = @ \ {r}]
          /\ blurred' = [blurred EXCEPT ![w] = TRUE]
          /\ UNCHANGED <<view, seen, error>>
  /\ UNCHANGED <<token, url, entering, parts>>

LogOut(w) ==
  /\ view[w] = "dashboard" /\ ~error[w] /\ parts[w].profile # Nobody
  /\ token' = Nobody /\ url' = [url EXCEPT ![w] = Nobody]
  /\ ToLogin(w) /\ UNCHANGED entering

PublisherNext ==
  \E w \in Windows :
    \/ OpenDashboard(w) \/ EnterPassword(w) \/ EnterAnswered(w) \/ Press(w)
    \/ ShowPart(w) \/ PartFails(w) \/ LogOut(w)
PublisherSpec == PublisherInit /\ [][PublisherNext]_publisherVars

-----------------------------------------------------------------------------
(***************************************************************************)
(* A dashboard that awaits nothing shows one publisher only, the one of    *)
(* its last render, although another tab may have logged in as another.    *)
(* It takes a token that changes under way, or a failure, to mix two.      *)
(***************************************************************************)
OnePublisher ==
  \A w \in Windows :
    view[w] = "dashboard" /\ pending[w] = {} /\ ~blurred[w]
      => parts[w].profile = seen[w] /\ parts[w].numbers = seen[w]
=============================================================================
