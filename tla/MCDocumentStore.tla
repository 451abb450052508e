---------------------------- MODULE MCDocumentStore ----------------------------
(***************************************************************************)
(* Three requests.  Two of any kinds overlap, with a call that throws or a *)
(* process that dies; the third one comes when they are over.  Those that  *)
(* delete from the vector store run with each kind of record manager.      *)
(***************************************************************************)
EXTENDS DocumentStore, TLC

CONSTANTS r1, r2, r3, d1, d2

Managing(cleanup, changing, queue, k1, k2, k3, faults, crashes) ==
    [queue |-> queue, kind |-> (r1 :> k1 @@ r2 :> k2 @@ r3 :> k3), first |-> {d1},
     cleanup |-> cleanup, changing |-> changing,
     last |-> {r3}, faults |-> faults, crashes |-> crashes]

Case(queue, k1, k2, k3, faults, crashes) ==
    Managing("noManager", TRUE, queue, k1, k2, k3, faults, crashes)

Requested == <<"add", "process", "upsertNew", "replace", "insert", "config", "unlist",
               "dropChunk", "editChunk", "deleteStore", "touch">>

SetupsVal ==
    {Case(FALSE, Requested[i], Requested[j], "refresh", 1, 0) :
            <<i, j>> \in {p \in (1 .. 9) \X (1 .. 11) : p[1] <= p[2]}}
        \cup {Case(FALSE, "replace", Requested[i], "deleteStore", 0, 1) : i \in 7 .. 11}
        \cup {Case(FALSE, "refresh", k, "process", 1, 0) : k \in {"add", "process", "unlist"}}
        \cup {Case(FALSE, "dropChunk", k, "process", 0, 1) : k \in {"unlist", "add"}}
        \cup {Case(TRUE, k1, k2, "none", 0, 1) : k1 \in UploadKinds \cup UpsertKinds,
                                               k2 \in {"touch", "unlist", "deleteStore"}}
        \cup {Case(TRUE, "process", "none", "refresh", 1, 2)}
        \cup {Managing(m, b, FALSE, "unindex", k, "refresh", 1, 0) :
                   m \in Cleanups \ {"noManager"}, b \in BOOLEAN,
                   k \in {"unindex", "insert", "editChunk", "replace"}}
        \cup {Managing("incremental", b, FALSE, "editChunk", k, "refresh", 0, 1) :
                   b \in BOOLEAN, k \in {"insert", "replace"}}
        \cup {Managing("full", TRUE, TRUE, "upsertNew", "unlist", "insert", 0, 1)}
        \cup {[Managing(m, TRUE, FALSE, k, "none", "refresh", 1, 0) EXCEPT !.first = {d1, d2}] :
                   m \in {"none", "incremental"}, k \in {"editChunk", "unindex"}}

\* A refresh of two loaders.
FullSetups ==
    {[Managing("full", TRUE, FALSE, "refresh", "none", "none", 0, 0) EXCEPT !.first = {d1, d2}]}
==============================================================================
