------------------------------ MODULE BlobCache ------------------------------
(***************************************************************************)
(* What the registry and the drivers may expect of a CacheStore            *)
(* (core/store.go:20-37), whatever keeps the entries: one content per key, *)
(* replaced as a whole.  A call is two instants: the one at which it takes *)
(* effect, and the one at which it answers.                                *)
(***************************************************************************)
CONSTANTS Keys, Contents, NoContent, Callers

(* The answers that carry no content; no content is one of them.           *)
Done == "done"
Refused == "refused"

VARIABLES
    content,   \* what is stored under each key
    call,      \* what each caller is asking for
    answer     \* what the last call of each caller returned, until the next

blobVars == <<content, call, answer>>

NoCall == [kind |-> "none"]
Request(kind, k, c) == [kind |-> kind, key |-> k, new |-> c]

BlobInit ==
    /\ content = [k \in Keys |-> NoContent]
    /\ call = [p \in Callers |-> NoCall]
    /\ answer = [p \in Callers |-> Refused]

(* A call begins: to get the content of k, or to put c there (NoContent to *)
(* remove it).                                                             *)
Ask(p, kind, k, c) ==
    /\ call[p] = NoCall
    /\ call' = [call EXCEPT ![p] = Request(kind, k, c)]
    /\ answer' = [answer EXCEPT ![p] = Refused]
    /\ UNCHANGED content

Answer(p, a) ==
    /\ call[p] # NoCall
    /\ call' = [call EXCEPT ![p] = NoCall]
    /\ answer' = [answer EXCEPT ![p] = a]
    /\ UNCHANGED content

(* A write or a removal takes effect; nobody is told yet.                  *)
Replace(p, k, c) ==
    /\ call[p] = Request("put", k, c)
    /\ content' = [content EXCEPT ![k] = c]
    /\ UNCHANGED <<call, answer>>

(* A write that reports success finds what it put in place.  A removal may *)
(* report success and have removed nothing (core/store.go:161-163).        *)
Confirm(p, k, c) ==
    /\ call[p] = Request("put", k, c)
    /\ c # NoContent => content[k] = c
    /\ Answer(p, Done)

(* A hit returns what is stored at this instant: never a part of it, and   *)
(* never the content of another key.                                       *)
Hit(p, k) ==
    /\ call[p] = Request("get", k, NoContent)
    /\ content[k] # NoContent
    /\ Answer(p, content[k])

(* A miss, or an error, needs no cause: the caller downloads again.        *)
Refuse(p) == Answer(p, Refused)

(* The callers are gone, what is stored is not.                            *)
Restart == call' = [p \in Callers |-> NoCall] /\ UNCHANGED <<content, answer>>

BlobNext ==
    \/ \E p \in Callers, k \in Keys, c \in Contents \union {NoContent} :
        \/ \E kind \in {"get", "put"} : Ask(p, kind, k, c)
        \/ Replace(p, k, c)
        \/ Confirm(p, k, c)
        \/ Hit(p, k)
    \/ \E p \in Callers : Refuse(p)
    \/ Restart

BlobSpec == BlobInit /\ [][BlobNext]_blobVars
=============================================================================
