------------------------------ MODULE SSEStreamer ------------------------------
(***************************************************************************)
(* The event streamer of one server process, as a value: which HTTP        *)
(* response is the client of an id (a chat, or a webhook listener), which  *)
(* ids observe a chat, what has been written to each response and which    *)
(* responses have been ended.  `broken` is the set of responses a write    *)
(* throws on.                                                              *)
(***************************************************************************)
EXTENDS FiniteSets

NoClient == "no client"

Streamer(Ids, Responses, Events) ==
    [clients : [Ids -> Responses \cup {NoClient}],
     observers : [Ids -> SUBSET Ids],
     out : [Responses -> SUBSET Events],
     ended : SUBSET Responses]

NewStreamer(Ids, Responses) ==
    [clients |-> [x \in Ids |-> NoClient],
     observers |-> [x \in Ids |-> {}],
     out |-> [w \in Responses |-> {}],
     ended |-> {}]

\* The responses behind a set of ids.
ResponsesOf(s, ids) == {s.clients[x] : x \in ids} \ {NoClient}

HasClient(s, id) == s.clients[id] # NoClient

HasClientOrObserver(s, id) == HasClient(s, id) \/ s.observers[id] # {}

\* addClient, addExternalClient: a client the id already has is replaced.
AddClient(s, id, response) == [s EXCEPT !.clients[id] = response]

AddObserver(s, id, observer) == [s EXCEPT !.observers[id] = @ \cup {observer}]

Written(s, receivers, event) ==
    [w \in DOMAIN s.out |->
        IF w \in receivers THEN s.out[w] \cup {event} ELSE s.out[w]]

Dropped(s, ids) ==
    [x \in DOMAIN s.clients |-> IF x \in ids THEN NoClient ELSE s.clients[x]]

Alive(s, observers, broken) ==
    {o \in observers : HasClient(s, o) /\ s.clients[o] \notin broken}

\* safeWrite: to the client of the id and to a copy for each of its observers.
\* A write that throws drops the client; an observer without client is dropped.
SafeWrite(s, id, event, broken) ==
    LET ids == {id} \cup s.observers[id] IN
    [s EXCEPT !.out = Written(s, ResponsesOf(s, ids) \ broken, event),
              !.clients = Dropped(s, {x \in ids : s.clients[x] \in broken}),
              !.observers[id] = Alive(s, @, broken)]

\* removeClient: the response ends, the observers hear of it and are let go,
\* and the id no longer observes anything.
\* Mutants: the response stays in the map; the observers are let go without a word.
RemoveClientKeepsEntry(s, id, broken) ==
    LET client == ResponsesOf(s, {id}) \ broken
        told == ResponsesOf(s, s.observers[id]) \ broken
    IN [clients |-> s.clients,
        observers |-> [x \in DOMAIN s.observers |->
                          IF x = id THEN {} ELSE s.observers[x] \ {id}],
        out |-> [w \in DOMAIN s.out |->
                    s.out[w] \cup {<<"end", id>> : v \in client \cap {w}}
                             \cup {<<"executionEnd", id>> : v \in told \cap {w}}],
        ended |-> s.ended \cup client]

RemoveClientSilently(s, id, broken) ==
    LET client == ResponsesOf(s, {id}) \ broken IN
    [clients |-> Dropped(s, {id}),
     observers |-> [x \in DOMAIN s.observers |->
                       IF x = id THEN {} ELSE s.observers[x] \ {id}],
     out |-> Written(s, client, <<"end", id>>),
     ended |-> s.ended \cup client]

RemoveClient(s, id, broken) ==
    LET client == ResponsesOf(s, {id}) \ broken
        told == ResponsesOf(s, s.observers[id]) \ broken
        lost == {o \in s.observers[id] : s.clients[o] \in broken}
    IN [clients |-> Dropped(s, {id} \cup lost),
        observers |-> [x \in DOMAIN s.observers |->
                          IF x = id THEN {} ELSE s.observers[x] \ {id}],
        out |-> [w \in DOMAIN s.out |->
                    s.out[w] \cup {<<"end", id>> : v \in client \cap {w}}
                             \cup {<<"executionEnd", id>> : v \in told \cap {w}}],
        ended |-> s.ended \cup client]

\* streamTTSAbortEvent: the client of the chat is told and its response ended.
SpeechAborted(s, id, broken) ==
    LET client == ResponsesOf(s, {id}) \ broken IN
    [s EXCEPT !.clients = Dropped(s, {id}),
              !.out = Written(s, client, <<"speechAborted", id>>),
              !.ended = @ \cup client]

\* startHeartbeat: a comment line to every client, through safeWrite.
Heartbeat(s, broken) ==
    [s EXCEPT !.clients = Dropped(s, {x \in DOMAIN @ : @[x] \in broken}),
              !.observers = [x \in DOMAIN @ |->
                  IF HasClient(s, x) THEN Alive(s, @[x], broken) ELSE @[x]]]
==============================================================================
