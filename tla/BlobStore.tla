------------------------------- MODULE BlobStore -------------------------------
(***************************************************************************)
(* The store of user data (blobs/inmem_blob_store.go,                      *)
(* blobs/sql_blob_store.go): blobs are created under a new identifier and  *)
(* read by it.  Creating one takes two steps, since its content comes over *)
(* a connection: the in-memory store holds its mutex from the first to the *)
(* second, the SQL store holds nothing.  The prefix is not used to read.   *)
(***************************************************************************)
EXTENDS Naturals

CONSTANTS
    Providers,  \* the stores to look at: "inmem", "sql"
    Arg,        \* the content of the one blob that is there at the start
    None        \* no holder, no blob, no content

\* Identifiers and invocations are numbers, and nothing else here is.
ASSUME StoreAssumption == None \notin Nat /\ Arg \notin Nat /\ Arg # None

VARIABLES
    provider,   \* the store in use, chosen by the scheme of the database URL
    blobs,      \* content by identifier
    count,      \* the next identifier: the counter, or a UUID nobody has used
    mu          \* the holder of the in-memory store's mutex

storeVars == << provider, blobs, count, mu >>

StoreInit ==
    /\ provider \in Providers
    /\ blobs = [b \in {0} |-> Arg]
    /\ count = 1
    /\ mu = None

\* Lock: nobody is in the mutex.
CanLock == provider = "inmem" => mu = None

\* Read of both stores: the content, or None for ErrBlobNotFound.
Read(b) == IF b \in DOMAIN blobs THEN blobs[b] ELSE None

CreateBegins_SameId(h) ==
    /\ CanLock
    /\ mu' = IF provider = "inmem" THEN h ELSE mu
    /\ UNCHANGED << provider, blobs, count >>

\* Create, up to the point where it reads the content: the identifier, count,
\* is used up whatever happens next.
CreateBegins(h) ==
    /\ CanLock
    /\ mu' = IF provider = "inmem" THEN h ELSE mu
    /\ count' = count + 1
    /\ UNCHANGED << provider, blobs >>

\* Create, once the content has been read to its end.
CreateEnds(id, content) ==
    /\ blobs' = [b \in DOMAIN blobs \union {id} |-> IF b = id THEN content ELSE blobs[b]]
    /\ mu' = IF provider = "inmem" THEN None ELSE mu
    /\ UNCHANGED << provider, count >>

\* Create, when the content breaks off; of the SQL store also a failed insert.
CreateFails ==
    /\ mu' = IF provider = "inmem" THEN None ELSE mu
    /\ UNCHANGED << provider, blobs, count >>

=============================================================================
