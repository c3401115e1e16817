--------------------------- MODULE EmbeddingSync ---------------------------
(***************************************************************************)
(* GET /embeddings and the embedding cache of the SDKs, over the position  *)
(* registry.  The server reads the version first and the positions later,  *)
(* without a lock in between; the cache sends the ETag it holds and, on    *)
(* 304, keeps what it has.  Calls of sync() may overlap, and their answers *)
(* may come in any order or not at all.                                    *)
(***************************************************************************)
EXTENDS Registry

CONSTANTS Fetches   \* calls of EmbeddingCache.sync under way at a time

VARIABLES
  cache,      \* EmbeddingCache.embeddings
  etag,       \* EmbeddingCache.etag, NoVersion if none
  call,       \* call[f]: "none", "sent", "body", "ok", "not_modified"
  tagOf,      \* tagOf[f]: If-None-Match, then the ETag of the answer
  bodyOf,     \* bodyOf[f]: the entries of the answer
  past        \* contents the registry has left, for the properties

clientVars == <<cache, etag, call, tagOf, bodyOf>>
vars == <<registryVars, clientVars, past>>

Content == Fingerprint(positions)   \* the part of a body the cache searches

SyncInit ==
  /\ RegistryInit
  /\ cache = {} /\ etag = NoVersion
  /\ call = [f \in Fetches |-> "none"]
  /\ tagOf = [f \in Fetches |-> NoVersion] /\ bodyOf = [f \in Fetches |-> {}]
  /\ past = {}

Become(f, state, tag, body) ==
  /\ call' = [call EXCEPT ![f] = state]
  /\ tagOf' = [tagOf EXCEPT ![f] = tag]
  /\ bodyOf' = [bodyOf EXCEPT ![f] = body]

(* sync(): the request carries the ETag of the last answer, if any.        *)
Send(f) ==
  /\ call[f] = "none"
  /\ Become(f, "sent", etag, {})
  /\ UNCHANGED <<registryVars, cache, etag, past>>

(***************************************************************************)
(* HandleEmbeddings: EmbeddingsVersion, the comparison, and then GetAll.   *)
(***************************************************************************)
ServeVersion(f) ==
  /\ call[f] = "sent"
  /\ ReadVersion
  /\ IF tagOf[f] = CurrentVersion THEN Become(f, "not_modified", NoVersion, {})
     ELSE Become(f, "body", CurrentVersion, {})
  /\ UNCHANGED <<cache, etag, past>>

ServeBody(f) ==
  /\ call[f] = "body"
  /\ Become(f, "ok", tagOf[f], Content)
  /\ UNCHANGED <<registryVars, cache, etag, past>>

(* The answer arrives: 304 changes nothing, 200 replaces cache and ETag.   *)
TagOnly(f) == cache' = cache /\ etag' = tagOf[f]   \* mutant
BothReplaced(f) == cache' = bodyOf[f] /\ etag' = tagOf[f]

Receive(f) ==
  /\ \/ call[f] = "ok" /\ BothReplaced(f)
     \/ call[f] = "not_modified" /\ UNCHANGED <<cache, etag>>
  /\ Become(f, "none", NoVersion, {})
  /\ UNCHANGED <<registryVars, past>>

(* The request or its answer is lost, and sync() throws.                   *)
Lose(f) ==
  /\ call[f] # "none"
  /\ Become(f, "none", NoVersion, {})
  /\ UNCHANGED <<registryVars, cache, etag, past>>

RegistryStep ==
  /\ RegistryNext
  /\ past' = IF Content' = Content THEN past ELSE past \cup {Content}
  /\ UNCHANGED clientVars

SyncStep(f) ==
  Send(f) \/ ServeVersion(f) \/ ServeBody(f) \/ Receive(f) \/ Lose(f)

SyncNext == RegistryStep \/ \E f \in Fetches : SyncStep(f)
SyncSpec == SyncInit /\ [][SyncNext]_vars

(***************************************************************************)
(* A goroutine serving a request is scheduled; the application calls sync  *)
(* again and again, and not every answer is lost.                          *)
(***************************************************************************)
FairSyncSpec ==
  /\ SyncSpec
  /\ \A h \in Writers : WF_registryVars(Progress(h))
  /\ \A f \in Fetches : /\ WF_vars(Send(f))
                        /\ SF_vars(ServeVersion(f)) /\ SF_vars(ServeBody(f))
                        /\ SF_vars(Receive(f))

-----------------------------------------------------------------------------
(***************************************************************************)
(* "304 means no update needed": the server answers 304 only to a request  *)
(* whose ETag is still the cache's if the cache holds what is in the       *)
(* registry, as long as the registry never returned to a content it had    *)
(* left.  Because the version is read before the positions, a race between *)
(* an answer and a registration, or answers out of order, leave an old     *)
(* ETag with a newer body and never the reverse; when the registry does    *)
(* return to the content of the old ETag, the newer body stays.            *)
(***************************************************************************)
FreshUnlessReverted ==
  [][\A f \in Fetches :
       call[f] = "sent" /\ call'[f] = "not_modified" /\ tagOf[f] = etag
         => cache = Content \/ Content \in past]_vars

(***************************************************************************)
(* A cache that keeps syncing ends with what the registry ends with, if    *)
(* that is not a content it had before (a group rolled back restores one). *)
(***************************************************************************)
EventuallyFresh == <>[](cache = Content \/ Content \in past)
=============================================================================
