------------------------------ MODULE Accounts ------------------------------
(***************************************************************************)
(* The creation of publisher accounts: POST /publisher/register, and POST  *)
(* /admin/publishers with an email and a password.  The next id is read,   *)
(* then the publisher, its token and its credentials are inserted, in      *)
(* statements of their own with nothing around them.                       *)
(***************************************************************************)
EXTENDS Integers, Sequences, FiniteSetsExt

CONSTANTS
  Creators,        \* creations under way at a time
  Emails,
  NoEmail,         \* creation by POST /publisher/register
  MaxPublishers    \* bound: ids given out

ASSUME AccountBounds == NoEmail \notin Emails /\ MaxPublishers \in Nat

VARIABLES
  publishers,    \* ids in the table publishers
  tokens,        \* tokens[t]: whose the t-th token is
  credentials,   \* credentials[e]: the id with that email, 0 if none
  creation,      \* the statement each creation is at, what it was called
                 \* with, the id it read and the token it generated
  created        \* answers: the account, its email and its token

accountVars == <<publishers, tokens, credentials, creation, created>>
accountTables == <<publishers, tokens, credentials>>

Idle == [at |-> "idle", email |-> NoEmail, id |-> 0, token |-> 0]

AccountsInit ==
  /\ publishers = {} /\ tokens = <<>> /\ credentials = [e \in Emails |-> 0]
  /\ creation = [c \in Creators |-> Idle]
  /\ created = {}

(* NextPublisherID: the largest plus one; an error of the query gives 1.    *)
NextPublisherID == {1, Max(publishers \cup {0}) + 1}

Create(c) ==
  /\ creation[c] = Idle
  /\ \E e \in Emails \cup {NoEmail}, id \in NextPublisherID :
       /\ id <= MaxPublishers
       /\ creation' = [creation EXCEPT ![c] =
            [at |-> "publisher", email |-> e, id |-> id, token |-> 0]]
  /\ UNCHANGED <<accountTables, created>>

(* INSERT INTO publishers fails for an id that is taken.                    *)
AnyId(id) == TRUE   \* mutant
IdIsFree(id) == id \notin publishers
InsertPublisher(c) ==
  /\ creation[c].at = "publisher" /\ IdIsFree(creation[c].id)
  /\ publishers' = publishers \cup {creation[c].id}
  /\ creation' = [creation EXCEPT ![c].at = "token"]
  /\ UNCHANGED <<tokens, credentials, created>>

Answer(c, token) ==
  /\ created' = created \cup
       {[id |-> creation[c].id, email |-> creation[c].email, token |-> token]}
  /\ creation' = [creation EXCEPT ![c] = Idle]
GeneratePublisherToken(c) ==
  /\ creation[c].at = "token"
  /\ tokens' = Append(tokens, creation[c].id)
  /\ \/ creation[c].email = NoEmail /\ Answer(c, Len(tokens'))
     \/ /\ creation[c].email # NoEmail
        /\ creation' = [creation EXCEPT ![c].at = "credentials", ![c].token = Len(tokens')]
        /\ UNCHANGED created
  /\ UNCHANGED <<publishers, credentials>>

(* The email is UNIQUE.                                                     *)
InsertPublisherCredentials(c) ==
  /\ creation[c].at = "credentials" /\ credentials[creation[c].email] = 0
  /\ credentials' = [credentials EXCEPT ![creation[c].email] = creation[c].id]
  /\ Answer(c, creation[c].token)
  /\ UNCHANGED <<publishers, tokens>>

(* Any statement may fail: the answer is 500, and what was inserted stays.  *)
CreationFails(c) ==
  /\ creation[c] # Idle
  /\ creation' = [creation EXCEPT ![c] = Idle]
  /\ UNCHANGED <<accountTables, created>>

AccountsNext ==
  \E c \in Creators :
    \/ Create(c) \/ InsertPublisher(c) \/ GeneratePublisherToken(c)
    \/ InsertPublisherCredentials(c) \/ CreationFails(c)
AccountsSpec == AccountsInit /\ [][AccountsNext]_accountVars

-----------------------------------------------------------------------------
(* HandlePublisherLogin: the account of the email, with one of its tokens.  *)
TokensOf(id) == {t \in DOMAIN tokens : tokens[t] = id}
LoginAnswer(e) == IF credentials[e] = 0 THEN {}
                  ELSE [id : {credentials[e]}, email : {e},
                        token : TokensOf(credentials[e])]

(***************************************************************************)
(* An account that was answered for works, whatever failed or raced before *)
(* and after: its token is its own, its email logs in to it and to no      *)
(* other, and no two answers named one account.  And whoever has           *)
(* credentials has a token ("no token found for publisher" is never said). *)
(***************************************************************************)
AccountsWork ==
  /\ \A a \in created : /\ TokensOf(a.id) = {a.token}
                        /\ a.email # NoEmail => LoginAnswer(a.email) = {a}
  /\ \A a, b \in created : a.id = b.id => a = b
  /\ \A e \in Emails : credentials[e] # 0 => LoginAnswer(e) # {}
=============================================================================
