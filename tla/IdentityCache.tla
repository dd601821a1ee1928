---------------------------- MODULE IdentityCache ----------------------------
(***************************************************************************)
(* CachingIdentityResolver (src/identity_cache.rs) as the binary sets it   *)
(* up: documents in memory for a while, behind them a storage by DID that  *)
(* has no end of its own (LruDidDocumentStorage, external), behind that    *)
(* the directory (external).                                               *)
(*                                                                         *)
(* There is one identity, known by its DID and by its handle.  A document  *)
(* is known by the hour the directory gave it.                             *)
(***************************************************************************)
EXTENDS Integers

CONSTANTS Resolver,    \* callers of resolve()
          MemoryTTL,   \* memory_ttl_seconds, in a unit longer than any resolution
          MaxHour      \* bound on the time

ASSUME IdentityAssumption == MemoryTTL \in Nat /\ MaxHour \in Nat

VARIABLES hour,
          memory,      \* by subject: a document and when it was cached, or None
          kept,      \* the document the storage has for the DID, or NoDoc
          resolving,   \* what each caller awaits, and what it has found
          answer,      \* (history) what the last step answered
          lastHeld     \* (history) when the storage last held each document

identityVars == <<hour, memory, kept, resolving, answer, lastHeld>>

\* normalize_subject: handles in lower case, so that one is one subject.
Subject == {"did", "handle"}
Hour == 0..MaxHour
NoDoc == -1
Forgotten == -MemoryTTL - 1
None == [doc |-> NoDoc, at |-> 0]
NoAnswer == [subject |-> "did", doc |-> NoDoc]
NotResolving == [step |-> "idle", subject |-> "did", doc |-> NoDoc]

\* Within reach of an answer; what is older need not be told apart.
Current(h, now) == now - h <= MemoryTTL
Holding(doc, now) ==
    [d \in Hour |-> IF d = doc THEN now ELSE IF Current(lastHeld[d], now) THEN lastHeld[d] ELSE Forgotten]

\* (Mutant) what is cached stays good.
NeverExpired(cached) == FALSE

\* is_expired.
Expired(cached) == hour - cached.at > MemoryTTL

Answers(r, subject, doc) ==
    /\ answer' = [subject |-> subject, doc |-> doc]
    /\ resolving' = [resolving EXCEPT ![r] = NotResolving]

------------------------------------------------------------------------------
(* resolve().                                                               *)

\* The memory is asked, and what has expired is dropped.
Resolve(r, subject) ==
    /\ resolving[r].step = "idle"
    /\ LET cached == memory[subject]
       IN  \/ /\ cached # None /\ ~Expired(cached)
              /\ Answers(r, subject, cached.doc)
              /\ UNCHANGED memory
           \/ /\ cached = None \/ Expired(cached)
              /\ memory' = [memory EXCEPT ![subject] = None]
              /\ resolving' = [resolving EXCEPT ![r] =
                    [step |-> "storage", subject |-> subject, doc |-> NoDoc]]
              /\ answer' = NoAnswer
    /\ UNCHANGED <<hour, kept, lastHeld>>

\* The storage, which knows no handles, is asked without the lock; a failure is
\* as good as no document.
AskStorage(r) ==
    /\ resolving[r].step = "storage"
    /\ \/ /\ resolving[r].subject = "did" /\ kept # NoDoc
          /\ resolving' = [resolving EXCEPT ![r].step = "cache", ![r].doc = kept]
       \/ resolving' = [resolving EXCEPT ![r].step = "directory"]
    /\ answer' = NoAnswer
    /\ UNCHANGED <<hour, memory, kept, lastHeld>>

\* The directory answers, or it fails, and so does the resolution.
AskDirectory(r) ==
    /\ resolving[r].step = "directory"
    /\ \/ resolving' = [resolving EXCEPT ![r].step = "cache and store", ![r].doc = hour]
       \/ resolving' = [resolving EXCEPT ![r] = NotResolving]
    /\ answer' = NoAnswer
    /\ UNCHANGED <<hour, memory, kept, lastHeld>>

\* What the storage had is cached anew, as of now.
CacheStored(r) ==
    /\ resolving[r].step = "cache"
    /\ memory' = [memory EXCEPT ![resolving[r].subject] =
                     [doc |-> resolving[r].doc, at |-> hour]]
    /\ Answers(r, resolving[r].subject, resolving[r].doc)
    /\ UNCHANGED <<hour, kept, lastHeld>>

\* What the directory gave is cached, and kept under the DID it names while the
\* memory is still locked; that it could not be kept is logged.
CacheFresh(r) ==
    /\ resolving[r].step = "cache and store"
    /\ memory' = [memory EXCEPT ![resolving[r].subject] =
                     [doc |-> resolving[r].doc, at |-> hour]]
    /\ kept' \in {kept, resolving[r].doc}
    /\ lastHeld' = Holding(kept', hour)
    /\ Answers(r, resolving[r].subject, resolving[r].doc)
    /\ UNCHANGED hour

\* Either cache may be full and drop the document for another's.
EvictDocument ==
    /\ \/ \E subject \in Subject :
            /\ memory[subject] # None
            /\ memory' = [memory EXCEPT ![subject] = None]
            /\ UNCHANGED kept
       \/ /\ kept # NoDoc
          /\ kept' = NoDoc
          /\ UNCHANGED memory
    /\ answer' = NoAnswer
    /\ UNCHANGED <<hour, resolving, lastHeld>>

\* Every request to the storage or the directory ends, or times out.
PassHour ==
    /\ hour < MaxHour
    /\ \A r \in Resolver : resolving[r].step = "idle"
    /\ hour' = hour + 1
    /\ lastHeld' = Holding(kept, hour + 1)
    /\ answer' = NoAnswer
    /\ UNCHANGED <<memory, kept, resolving>>

IdentityInit ==
    /\ hour = 0
    /\ memory = [s \in Subject |-> None]
    /\ kept = NoDoc
    /\ resolving = [r \in Resolver |-> NotResolving]
    /\ answer = NoAnswer
    /\ lastHeld = [d \in Hour |-> Forgotten]

IdentityNext ==
    \/ PassHour \/ EvictDocument
    \/ \E r \in Resolver :
          \/ \E subject \in Subject : Resolve(r, subject)
          \/ AskStorage(r) \/ AskDirectory(r) \/ CacheStored(r) \/ CacheFresh(r)

IdentitySpec == IdentityInit /\ [][IdentityNext]_identityVars

------------------------------------------------------------------------------
\* How old an answer may be, whichever way the resolutions of a DID and of its
\* handle interleave and whatever the caches drop: within the time to live the
\* directory gave it - or, for a DID, the storage held it, from which a document of
\* any age is cached anew (identity_cache.rs:96): the time to live does not bound
\* the age of what a DID resolves to.
DocumentsAreBounded ==
    answer # NoAnswer =>
        \/ Current(answer.doc, hour)
        \/ answer.subject = "did" /\ Current(lastHeld[answer.doc], hour)
==============================================================================
