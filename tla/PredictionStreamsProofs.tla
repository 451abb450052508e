------------------------ MODULE PredictionStreamsProofs ------------------------
(***************************************************************************)
(* What TLAPS proves of PredictionStreams, for any requests, listeners,    *)
(* chats, replicas, configurations and bounds: the types, who waits for    *)
(* what, and what follows for callbacks, subscriptions and aborts. It      *)
(* begins with what the operations of the event streamer return, for any   *)
(* ids, responses and events: their types, what they add, and what they    *)
(* never do.                                                               *)
(***************************************************************************)
EXTENDS PredictionStreams, FiniteSetTheorems, SequenceTheorems, TLAPS

(***************************************************************************)
(* From s to t nobody is connected and nobody begins to observe; only a    *)
(* connected response is written to, and what is ended is disconnected.    *)
(***************************************************************************)
Fades(s, t) ==
    /\ DOMAIN t.clients = DOMAIN s.clients /\ DOMAIN t.observers = DOMAIN s.observers
    /\ DOMAIN t.out = DOMAIN s.out
    /\ \A x \in DOMAIN s.clients : t.clients[x] = s.clients[x] \/ t.clients[x] = NoClient
    /\ \A x \in DOMAIN s.observers : t.observers[x] \subseteq s.observers[x]
    /\ \A w \in DOMAIN s.out : s.out[w] \subseteq t.out[w]
    /\ \A w \in DOMAIN s.out :
          t.out[w] # s.out[w] => w # NoClient /\ \E x \in DOMAIN s.clients : s.clients[x] = w
    /\ s.ended \subseteq t.ended
    /\ \A w \in t.ended \ s.ended :
          w # NoClient /\ \E x \in DOMAIN s.clients : s.clients[x] = w /\ t.clients[x] = NoClient

\* Who is let go of an id and keeps a connection that works has heard why.
Tells(s, t, severed) ==
    \A y \in DOMAIN s.observers : \A o \in s.observers[y] \ t.observers[y] :
        \/ t.clients[o] = NoClient \/ t.clients[o] \in severed
        \/ <<"executionEnd", y>> \in t.out[t.clients[o]]

\* Only the ids can lose a client whose connection works.
Keeps(s, t, severed, ids) ==
    \A y \in DOMAIN s.clients \ ids : s.clients[y] \notin severed => t.clients[y] = s.clients[y]

Declines(s, t, severed, ids) == Fades(s, t) /\ Tells(s, t, severed) /\ Keeps(s, t, severed, ids)

\* The words of the streamer itself about an id are events.
Sayable(E, x) == {<<"end", x>>, <<"executionEnd", x>>, <<"speechAborted", x>>} \subseteq E

\* The client of x, if a write to it works, gets the event and stays; or gets
\* the end of its stream and is ended, and nobody observes x any more.
Reaches(s, t, x, event, severed) ==
    s.clients[x] \notin severed \cup {NoClient} =>
        event \in t.out[s.clients[x]] /\ t.clients[x] = s.clients[x]

Finishes(s, t, x, severed) ==
    /\ t.observers[x] = {}
    /\ s.clients[x] \notin severed \cup {NoClient} =>
          <<"end", x>> \in t.out[s.clients[x]] /\ s.clients[x] \in t.ended

LEMMA StreamerElim ==
    ASSUME NEW I, NEW R, NEW E, NEW s \in Streamer(I, R, E)
    PROVE  /\ s.clients \in [I -> R \cup {NoClient}] /\ s.observers \in [I -> SUBSET I]
           /\ s.out \in [R -> SUBSET E] /\ s.ended \in SUBSET R
           /\ DOMAIN s.clients = I /\ DOMAIN s.observers = I /\ DOMAIN s.out = R
BY DEF Streamer

LEMMA NewStreamerType ==
    ASSUME NEW I, NEW R, NEW E
    PROVE  NewStreamer(I, R) \in Streamer(I, R, E)
BY DEF NewStreamer, Streamer

LEMMA FadesReflexive ==
    ASSUME NEW s
    PROVE  Fades(s, s)
BY DEF Fades

LEMMA FadesTransitive ==
    ASSUME NEW I, NEW R, NEW E, NEW s \in Streamer(I, R, E), NEW t \in Streamer(I, R, E),
           NEW u \in Streamer(I, R, E), Fades(s, t), Fades(t, u)
    PROVE  Fades(s, u)
<1> USE StreamerElim DEF Fades
<1>1. /\ DOMAIN u.clients = DOMAIN s.clients /\ DOMAIN u.observers = DOMAIN s.observers
      /\ DOMAIN u.out = DOMAIN s.out
  OBVIOUS
<1>2. \A x \in DOMAIN s.clients : u.clients[x] = s.clients[x] \/ u.clients[x] = NoClient
  OBVIOUS
<1>3. \A x \in DOMAIN s.observers : u.observers[x] \subseteq s.observers[x]
  OBVIOUS
<1>4. \A w \in DOMAIN s.out : s.out[w] \subseteq u.out[w]
  OBVIOUS
<1>5. ASSUME NEW w \in DOMAIN s.out, u.out[w] # s.out[w]
      PROVE  w # NoClient /\ \E x \in DOMAIN s.clients : s.clients[x] = w
  BY <1>5
<1>6. s.ended \subseteq u.ended
  OBVIOUS
<1>7. ASSUME NEW w \in u.ended \ s.ended
      PROVE  w # NoClient /\ \E x \in DOMAIN s.clients : s.clients[x] = w /\ u.clients[x] = NoClient
  <2>1. CASE w \in t.ended BY <1>2, <2>1
  <2>2. CASE w \notin t.ended BY <2>2
  <2> QED BY <2>1, <2>2
<1> QED BY <1>1, <1>2, <1>3, <1>4, <1>5, <1>6, <1>7

----------------------------------------------------------------------------
(***************************************************************************)
(* Additions                                                               *)
(***************************************************************************)
LEMMA AddClientEffect ==
    ASSUME NEW I, NEW R, NEW E, NEW s \in Streamer(I, R, E), NEW x \in I, NEW w \in R
    PROVE  LET t == AddClient(s, x, w) IN
           /\ t \in Streamer(I, R, E)
           /\ t.clients = [s.clients EXCEPT ![x] = w]
           /\ t.observers = s.observers /\ t.out = s.out /\ t.ended = s.ended
BY DEF AddClient, Streamer

LEMMA AddObserverEffect ==
    ASSUME NEW I, NEW R, NEW E, NEW s \in Streamer(I, R, E), NEW x \in I, NEW o \in I
    PROVE  LET t == AddObserver(s, x, o) IN
           /\ t \in Streamer(I, R, E)
           /\ t.observers = [s.observers EXCEPT ![x] = s.observers[x] \cup {o}]
           /\ t.clients = s.clients /\ t.out = s.out /\ t.ended = s.ended
BY DEF AddObserver, Streamer

----------------------------------------------------------------------------
(***************************************************************************)
(* Writes and removals                                                     *)
(***************************************************************************)
LEMMA WrittenType ==
    ASSUME NEW I, NEW R, NEW E, NEW s \in Streamer(I, R, E), NEW S, NEW e \in E
    PROVE  /\ Written(s, S, e) \in [R -> SUBSET E]
           /\ \A w \in R : Written(s, S, e)[w] = IF w \in S THEN s.out[w] \cup {e} ELSE s.out[w]
BY DEF Written, Streamer

LEMMA DroppedType ==
    ASSUME NEW I, NEW R, NEW E, NEW s \in Streamer(I, R, E), NEW S
    PROVE  /\ Dropped(s, S) \in [I -> R \cup {NoClient}]
           /\ \A x \in I : Dropped(s, S)[x] = IF x \in S THEN NoClient ELSE s.clients[x]
BY DEF Dropped, Streamer

\* What a write makes of each response, client and observer.
WriteShows(s, x, e, severed, t, I, R) ==
    /\ \A w \in R : t.out[w] =
          IF w \in ResponsesOf(s, {x} \cup s.observers[x]) \ severed THEN s.out[w] \cup {e}
          ELSE s.out[w]
    /\ \A y \in I : t.clients[y] =
          IF y \in {x} \cup s.observers[x] /\ s.clients[y] \in severed THEN NoClient
          ELSE s.clients[y]
    /\ \A y \in I : t.observers[y] =
          IF y = x THEN Alive(s, s.observers[x], severed) ELSE s.observers[y]

LEMMA SafeWriteFields ==
    ASSUME NEW I, NEW R, NEW E, NEW s \in Streamer(I, R, E), NEW x \in I, NEW e \in E, NEW severed,
           NEW t, t = SafeWrite(s, x, e, severed)
    PROVE  t \in Streamer(I, R, E) /\ t.ended = s.ended /\ WriteShows(s, x, e, severed, t, I, R)
<1> DEFINE ids == {x} \cup s.observers[x]
           told == ResponsesOf(s, ids) \ severed
           lost == {y \in ids : s.clients[y] \in severed}
           out == Written(s, told, e)
           clients == Dropped(s, lost)
           observers == [s.observers EXCEPT ![x] = Alive(s, s.observers[x], severed)]
<1>1. t = [s EXCEPT !.out = out, !.clients = clients, !.observers = observers]
  BY DEF SafeWrite
<1>2. \A y \in I : y \in lost <=> y \in ids /\ s.clients[y] \in severed
  OBVIOUS
<1> HIDE DEF told, lost
<1>3. /\ out \in [R -> SUBSET E]
      /\ \A w \in R : out[w] = IF w \in told THEN s.out[w] \cup {e} ELSE s.out[w]
  BY StreamerElim DEF Written
<1>4. /\ clients \in [I -> R \cup {NoClient}]
      /\ \A y \in I : clients[y] = IF y \in lost THEN NoClient ELSE s.clients[y]
  BY DroppedType
<1>5. /\ observers \in [I -> SUBSET I]
      /\ \A y \in I : observers[y] =
            IF y = x THEN Alive(s, s.observers[x], severed) ELSE s.observers[y]
  BY StreamerElim DEF Alive
<1> HIDE DEF out, clients, observers, ids
<1>6. t = [clients |-> clients, observers |-> observers, out |-> out, ended |-> s.ended]
  BY <1>1 DEF Streamer
<1>7. t \in Streamer(I, R, E) BY <1>3, <1>4, <1>5, <1>6, StreamerElim DEF Streamer
<1>8. /\ t.out = out /\ t.clients = clients /\ t.observers = observers /\ t.ended = s.ended
  BY <1>6
<1> QED BY <1>2, <1>3, <1>4, <1>5, <1>7, <1>8 DEF ids, told, WriteShows

\* A write loses no connection that works, and lets go of nobody who has one.
LEMMA SafeWriteFades ==
    ASSUME NEW I, NEW R, NEW E, NEW s \in Streamer(I, R, E), NEW x \in I, NEW e \in E, NEW severed,
           NEW t, t = SafeWrite(s, x, e, severed)
    PROVE  /\ t \in Streamer(I, R, E) /\ Fades(s, t)
           /\ t.ended = s.ended
           /\ \A y \in I : s.clients[y] \notin severed => t.clients[y] = s.clients[y]
           /\ \A y \in I : \A o \in s.observers[y] \ t.observers[y] :
                 t.clients[o] = NoClient \/ t.clients[o] \in severed
           /\ s.clients[x] \notin severed /\ s.clients[x] # NoClient => e \in t.out[s.clients[x]]
<1> DEFINE told == ResponsesOf(s, {x} \cup s.observers[x]) \ severed
<1>1. /\ t \in Streamer(I, R, E) /\ t.ended = s.ended
      /\ \A w \in R : t.out[w] = IF w \in told THEN s.out[w] \cup {e} ELSE s.out[w]
      /\ \A y \in I : t.clients[y] =
            IF y \in {x} \cup s.observers[x] /\ s.clients[y] \in severed THEN NoClient
            ELSE s.clients[y]
      /\ \A y \in I : t.observers[y] =
            IF y = x THEN Alive(s, s.observers[x], severed) ELSE s.observers[y]
  <2>1. t \in Streamer(I, R, E) /\ t.ended = s.ended /\ WriteShows(s, x, e, severed, t, I, R)
    BY SafeWriteFields
  <2> QED BY <2>1 DEF WriteShows
<1>2. \A w : w \in told <=> /\ \E y \in {x} \cup s.observers[x] : s.clients[y] = w
                            /\ w # NoClient /\ w \notin severed
  BY DEF ResponsesOf
<1> HIDE DEF told
<1>3. Fades(s, t)
  <2>1. ASSUME NEW w \in R, t.out[w] # s.out[w]
        PROVE  w # NoClient /\ \E y \in I : s.clients[y] = w
    <3>1. w \in told BY <2>1, <1>1
    <3> QED BY <3>1, <1>2, StreamerElim
  <2>2. \A y \in I : t.clients[y] = s.clients[y] \/ t.clients[y] = NoClient BY <1>1
  <2>3. \A y \in I : t.observers[y] \subseteq s.observers[y] BY <1>1 DEF Alive
  <2>4. \A w \in R : s.out[w] \subseteq t.out[w] BY <1>1
  <2>5. /\ DOMAIN t.clients = I /\ DOMAIN t.observers = I /\ DOMAIN t.out = R
        /\ DOMAIN s.clients = I /\ DOMAIN s.observers = I /\ DOMAIN s.out = R
    BY <1>1, StreamerElim
  <2> QED BY <2>1, <2>2, <2>3, <2>4, <2>5, <1>1 DEF Fades
<1>4. \A y \in I : s.clients[y] \notin severed => t.clients[y] = s.clients[y] BY <1>1
<1>5. ASSUME NEW y \in I, NEW o \in s.observers[y] \ t.observers[y]
      PROVE  t.clients[o] = NoClient \/ t.clients[o] \in severed
  <2>1. o \in I BY StreamerElim
  <2>2. y = x BY <1>1
  <2> QED BY <2>1, <2>2, <1>1 DEF Alive, HasClient
<1>6. ASSUME s.clients[x] \notin severed, s.clients[x] # NoClient
      PROVE  e \in t.out[s.clients[x]]
  <2>1. s.clients[x] \in R /\ s.clients[x] \in told BY <1>2, <1>6, StreamerElim
  <2> QED BY <2>1, <1>1
<1> QED BY <1>1, <1>3, <1>4, <1>5, <1>6

\* The client that goes has the end of its stream and is ended; who observed
\* it and has a connection that works has heard that the execution is over.
LEMMA RemoveClientDeclines ==
    ASSUME NEW I, NEW R, NEW E, NEW s \in Streamer(I, R, E), NEW x \in I, NEW severed,
           Sayable(E, x), NEW t, t = RemoveClient(s, x, severed)
    PROVE  t \in Streamer(I, R, E) /\ Declines(s, t, severed, {x}) /\ Finishes(s, t, x, severed)
<1> DEFINE client == ResponsesOf(s, {x}) \ severed
           told == ResponsesOf(s, s.observers[x]) \ severed
<1>0. <<"end", x>> \in E /\ <<"executionEnd", x>> \in E BY DEF Sayable
<1>1. /\ t \in Streamer(I, R, E)
      /\ t.ended = s.ended \cup client
      /\ \A w \in R : \A e : e \in t.out[w] <=>
            \/ e \in s.out[w]
            \/ e = <<"end", x>> /\ w \in client
            \/ e = <<"executionEnd", x>> /\ w \in told
      /\ \A y \in I : t.observers[y] = IF y = x THEN {} ELSE s.observers[y] \ {x}
      /\ \A y \in I : t.clients[y] =
            IF y = x \/ (y \in s.observers[x] /\ s.clients[y] \in severed) THEN NoClient
            ELSE s.clients[y]
  <2> DEFINE lost == {o \in s.observers[x] : s.clients[o] \in severed}
             clients == Dropped(s, {x} \cup lost)
             observers == [y \in DOMAIN s.observers |->
                              IF y = x THEN {} ELSE s.observers[y] \ {x}]
             out == [w \in DOMAIN s.out |-> s.out[w] \cup {<<"end", x>> : v \in client \cap {w}}
                                              \cup {<<"executionEnd", x>> : v \in told \cap {w}}]
  <2>1. t = [clients |-> clients, observers |-> observers, out |-> out,
             ended |-> s.ended \cup client]
    BY DEF RemoveClient
  <2>2. s.ended \cup client \in SUBSET R BY StreamerElim DEF ResponsesOf
  <2>3. \A y \in I : y \in lost <=> y \in s.observers[x] /\ s.clients[y] \in severed OBVIOUS
  <2> HIDE DEF client, told, lost
  <2>4. /\ clients \in [I -> R \cup {NoClient}]
        /\ \A y \in I : clients[y] = IF y = x \/ y \in lost THEN NoClient ELSE s.clients[y]
    BY DroppedType
  <2>5. /\ observers \in [I -> SUBSET I]
        /\ \A y \in I : observers[y] = IF y = x THEN {} ELSE s.observers[y] \ {x}
    BY StreamerElim
  <2>6. \A w \in R : out[w] = s.out[w] \cup {<<"end", x>> : v \in client \cap {w}}
                                       \cup {<<"executionEnd", x>> : v \in told \cap {w}}
    BY StreamerElim
  <2>7. out \in [R -> SUBSET E]
    <3>1. ASSUME NEW w \in R
          PROVE  /\ s.out[w] \in SUBSET E
                 /\ {<<"end", x>> : v \in client \cap {w}} \in SUBSET E
                 /\ {<<"executionEnd", x>> : v \in told \cap {w}} \in SUBSET E
      BY <1>0, StreamerElim
    <3> QED BY <3>1, StreamerElim
  <2> HIDE DEF clients, observers, out
  <2>8. ASSUME NEW w \in R, NEW e
        PROVE  e \in out[w] <=> \/ e \in s.out[w]
                                \/ e = <<"end", x>> /\ w \in client
                                \/ e = <<"executionEnd", x>> /\ w \in told
    BY <2>6
  <2>9. t \in Streamer(I, R, E)
    <3> DEFINE ended == s.ended \cup client
    <3> HIDE DEF ended
    <3> QED BY <2>1, <2>2, <2>4, <2>5, <2>7 DEF Streamer, ended
  <2>10. /\ t.clients = clients /\ t.observers = observers /\ t.out = out
         /\ t.ended = s.ended \cup client
    BY <2>1
  <2> QED BY <2>3, <2>4, <2>5, <2>8, <2>9, <2>10
<1>2. /\ \A w : w \in client <=> w = s.clients[x] /\ w # NoClient /\ w \notin severed
      /\ \A w : w \in told <=> /\ \E o \in s.observers[x] : s.clients[o] = w
                               /\ w # NoClient /\ w \notin severed
  BY DEF ResponsesOf
<1> HIDE DEF client, told
<1>3. Fades(s, t)
  <2>1. ASSUME NEW w \in R, t.out[w] # s.out[w]
        PROVE  w # NoClient /\ \E y \in I : s.clients[y] = w
    <3>1. w \in client \/ w \in told
      <4>1. PICK e : ~(e \in t.out[w] <=> e \in s.out[w]) BY <2>1, <1>1, StreamerElim
      <4> QED BY <4>1, <1>1
    <3> QED BY <3>1, <1>2, StreamerElim
  <2>2. \A w \in t.ended \ s.ended :
           w # NoClient /\ \E y \in I : s.clients[y] = w /\ t.clients[y] = NoClient
    BY <1>1, <1>2
  <2>3. \A w \in R : s.out[w] \subseteq t.out[w] BY <1>1
  <2>4. \A y \in I : t.clients[y] = s.clients[y] \/ t.clients[y] = NoClient BY <1>1
  <2>5. \A y \in I : t.observers[y] \subseteq s.observers[y] BY <1>1
  <2>6. s.ended \subseteq t.ended BY <1>1
  <2>7. /\ DOMAIN t.clients = I /\ DOMAIN t.observers = I /\ DOMAIN t.out = R
        /\ DOMAIN s.clients = I /\ DOMAIN s.observers = I /\ DOMAIN s.out = R
    BY <1>1, StreamerElim
  <2> QED BY <2>1, <2>2, <2>3, <2>4, <2>5, <2>6, <2>7 DEF Fades
<1>4. ASSUME s.clients[x] \notin severed, s.clients[x] # NoClient
      PROVE  <<"end", x>> \in t.out[s.clients[x]] /\ s.clients[x] \in t.ended
  <2>1. s.clients[x] \in client /\ s.clients[x] \in R BY <1>2, <1>4, StreamerElim
  <2> QED BY <2>1, <1>1
<1>5. ASSUME NEW y \in I, NEW o \in s.observers[y] \ t.observers[y],
             t.clients[o] # NoClient, t.clients[o] \notin severed
      PROVE  x = y /\ <<"executionEnd", x>> \in t.out[t.clients[o]]
  <2>1. o \in I BY StreamerElim
  <2>2. o # x /\ s.clients[o] = t.clients[o] BY <2>1, <1>1, <1>5
  <2>3. x = y BY <2>2, <1>1
  <2>4. t.clients[o] \in told /\ t.clients[o] \in R BY <2>1, <2>2, <2>3, <1>2, <1>5, StreamerElim
  <2> QED BY <2>3, <2>4, <1>1
<1>6. \A y \in I : y # x /\ s.clients[y] \notin severed => t.clients[y] = s.clients[y] BY <1>1
<1>7. Declines(s, t, severed, {x})
  <2>1. DOMAIN s.clients = I /\ DOMAIN s.observers = I BY StreamerElim
  <2>2. Tells(s, t, severed) BY <2>1, <1>5 DEF Tells
  <2>3. Keeps(s, t, severed, {x}) BY <2>1, <1>6 DEF Keeps
  <2> QED BY <1>3, <2>2, <2>3 DEF Declines
<1>8. Finishes(s, t, x, severed) BY <1>1, <1>4 DEF Finishes
<1> QED BY <1>1, <1>7, <1>8

LEMMA SpeechAbortedFades ==
    ASSUME NEW I, NEW R, NEW E, NEW s \in Streamer(I, R, E), NEW x \in I, NEW severed,
           Sayable(E, x), NEW t, t = SpeechAborted(s, x, severed)
    PROVE  /\ t \in Streamer(I, R, E) /\ Fades(s, t)
           /\ t.ended \subseteq s.ended \cup {s.clients[x]}
           /\ \A y \in I : y # x => t.clients[y] = s.clients[y]
           /\ t.observers = s.observers
<1> DEFINE client == ResponsesOf(s, {x}) \ severed
           clients == Dropped(s, {x})
           out == Written(s, client, <<"speechAborted", x>>)
           ended == s.ended \cup client
<1>0. <<"speechAborted", x>> \in E BY DEF Sayable
<1>1. t = [s EXCEPT !.clients = clients, !.out = out, !.ended = ended]
  BY DEF SpeechAborted
<1>2. ended \in SUBSET R BY StreamerElim DEF ResponsesOf
<1>3. \A w : w \in client <=> w = s.clients[x] /\ w # NoClient /\ w \notin severed
  BY DEF ResponsesOf
<1>4. ended = s.ended \cup client OBVIOUS
<1> HIDE DEF client, ended
<1>5. /\ clients \in [I -> R \cup {NoClient}]
      /\ \A y \in I : clients[y] = IF y = x THEN NoClient ELSE s.clients[y]
  BY DroppedType
<1>6. /\ out \in [R -> SUBSET E]
      /\ \A w \in R : s.out[w] \subseteq out[w]
      /\ \A w \in R \ client : out[w] = s.out[w]
  BY <1>0, StreamerElim DEF Written
<1> HIDE DEF clients, out
<1>7. t = [clients |-> clients, observers |-> s.observers, out |-> out, ended |-> ended]
  BY <1>1 DEF Streamer
<1>8. t \in Streamer(I, R, E) BY <1>2, <1>5, <1>6, <1>7, StreamerElim DEF Streamer
<1>9. t.clients = clients /\ t.observers = s.observers /\ t.out = out /\ t.ended = ended
  BY <1>7
<1>10. Fades(s, t)
  <2>1. /\ DOMAIN t.clients = I /\ DOMAIN t.observers = I /\ DOMAIN t.out = R
        /\ DOMAIN s.clients = I /\ DOMAIN s.observers = I /\ DOMAIN s.out = R
    BY <1>8, StreamerElim
  <2>2. \A w \in R : t.out[w] # s.out[w] => w # NoClient /\ \E y \in I : s.clients[y] = w
    BY <1>3, <1>6, <1>9
  <2>3. \A w \in t.ended \ s.ended :
           w # NoClient /\ \E y \in I : s.clients[y] = w /\ t.clients[y] = NoClient
    BY <1>3, <1>4, <1>5, <1>9
  <2>4. \A y \in I : t.clients[y] = s.clients[y] \/ t.clients[y] = NoClient BY <1>5, <1>9
  <2>5. s.ended \subseteq t.ended BY <1>4, <1>9
  <2> QED BY <2>1, <2>2, <2>3, <2>4, <2>5, <1>6, <1>9 DEF Fades
<1>11. t.ended \subseteq s.ended \cup {s.clients[x]} BY <1>3, <1>4, <1>9
<1> QED BY <1>5, <1>8, <1>9, <1>10, <1>11

LEMMA HeartbeatFades ==
    ASSUME NEW I, NEW R, NEW E, NEW s \in Streamer(I, R, E), NEW severed,
           NEW t, t = Heartbeat(s, severed)
    PROVE  /\ t \in Streamer(I, R, E) /\ Fades(s, t)
           /\ t.ended = s.ended
           /\ \A y \in I : s.clients[y] \notin severed => t.clients[y] = s.clients[y]
           /\ \A y \in I : \A o \in s.observers[y] \ t.observers[y] :
                 t.clients[o] = NoClient \/ t.clients[o] \in severed
<1> DEFINE lost == {x \in DOMAIN s.clients : s.clients[x] \in severed}
           clients == Dropped(s, lost)
           observers == [x \in DOMAIN s.observers |->
                            IF HasClient(s, x) THEN Alive(s, s.observers[x], severed)
                            ELSE s.observers[x]]
<1>1. t = [s EXCEPT !.clients = clients, !.observers = observers]
  BY DEF Heartbeat
<1>2. \A y \in I : y \in lost <=> s.clients[y] \in severed BY StreamerElim
<1> HIDE DEF lost
<1>3. /\ clients \in [I -> R \cup {NoClient}]
      /\ \A y \in I : clients[y] = IF y \in lost THEN NoClient ELSE s.clients[y]
  BY DroppedType
<1>4. /\ observers \in [I -> SUBSET I]
      /\ \A y \in I : observers[y] \subseteq s.observers[y]
      /\ \A y \in I : \A o \in s.observers[y] \ observers[y] :
            ~(HasClient(s, o) /\ s.clients[o] \notin severed)
  BY StreamerElim DEF Alive
<1> HIDE DEF clients, observers
<1>5. t = [clients |-> clients, observers |-> observers, out |-> s.out, ended |-> s.ended]
  BY <1>1 DEF Streamer
<1>6. t \in Streamer(I, R, E) BY <1>3, <1>4, <1>5, StreamerElim DEF Streamer
<1>7. t.clients = clients /\ t.observers = observers /\ t.out = s.out /\ t.ended = s.ended
  BY <1>5
<1>8. Fades(s, t)
  <2>1. /\ DOMAIN t.clients = I /\ DOMAIN t.observers = I /\ DOMAIN t.out = R
        /\ DOMAIN s.clients = I /\ DOMAIN s.observers = I /\ DOMAIN s.out = R
    BY <1>6, StreamerElim
  <2> QED BY <2>1, <1>3, <1>4, <1>7 DEF Fades
<1>9. ASSUME NEW y \in I, NEW o \in s.observers[y] \ t.observers[y]
      PROVE  t.clients[o] = NoClient \/ t.clients[o] \in severed
  <2>1. o \in I BY StreamerElim
  <2> QED BY <2>1, <1>3, <1>4, <1>7 DEF HasClient
<1> QED BY <1>2, <1>3, <1>6, <1>7, <1>8, <1>9

----------------------------------------------------------------------------
(***************************************************************************)
(* One step after another; writes, aborts of speech and heartbeats         *)
(***************************************************************************)
LEMMA DeclinesReflexive ==
    ASSUME NEW s, NEW severed
    PROVE  Declines(s, s, severed, {})
BY FadesReflexive DEF Declines, Tells, Keeps

LEMMA DeclinesTransitive ==
    ASSUME NEW I, NEW R, NEW E, NEW s \in Streamer(I, R, E), NEW t \in Streamer(I, R, E),
           NEW u \in Streamer(I, R, E), NEW severed, NEW ids,
           Declines(s, t, severed, {}), Declines(t, u, severed, ids)
    PROVE  Declines(s, u, severed, ids)
<1>1. Fades(s, u) BY FadesTransitive DEF Declines
<1>2. Keeps(s, u, severed, ids) BY StreamerElim DEF Declines, Keeps
<1>3. ASSUME NEW y \in I, NEW o \in s.observers[y] \ u.observers[y]
      PROVE  \/ u.clients[o] = NoClient \/ u.clients[o] \in severed
             \/ <<"executionEnd", y>> \in u.out[u.clients[o]]
  <2>1. o \in I BY StreamerElim
  <2>2. u.clients[o] = t.clients[o] \/ u.clients[o] = NoClient
    BY <2>1, StreamerElim DEF Declines, Fades
  <2>3. CASE o \in t.observers[y]
    <3>1. o \in t.observers[y] \ u.observers[y] BY <2>3, <1>3
    <3> QED BY <3>1, StreamerElim DEF Declines, Tells
  <2>4. CASE o \notin t.observers[y] /\ u.clients[o] = t.clients[o] /\ u.clients[o] # NoClient
    <3>1. o \in s.observers[y] \ t.observers[y] BY <2>4, <1>3
    <3>2. t.clients[o] \in severed \/ <<"executionEnd", y>> \in t.out[t.clients[o]]
      BY <3>1, <2>4, StreamerElim DEF Declines, Tells
    <3>3. t.clients[o] \in R BY <2>1, <2>4, StreamerElim
    <3>4. t.out[t.clients[o]] \subseteq u.out[t.clients[o]]
      BY <3>3, StreamerElim DEF Declines, Fades
    <3> QED BY <3>2, <3>4, <2>4
  <2> QED BY <2>2, <2>3, <2>4
<1>4. DOMAIN s.observers = I BY StreamerElim
<1>5. Tells(s, u, severed) BY <1>3, <1>4 DEF Tells
<1> QED BY <1>1, <1>2, <1>5 DEF Declines

LEMMA SafeWriteDeclines ==
    ASSUME NEW I, NEW R, NEW E, NEW s \in Streamer(I, R, E), NEW x \in I, NEW e \in E, NEW severed,
           NEW t, t = SafeWrite(s, x, e, severed)
    PROVE  /\ t \in Streamer(I, R, E) /\ Declines(s, t, severed, {})
           /\ Reaches(s, t, x, e, severed)
<1>1. /\ t \in Streamer(I, R, E) /\ Declines(s, t, severed, {})
      /\ \A y \in I : s.clients[y] \notin severed => t.clients[y] = s.clients[y]
      /\ s.clients[x] \notin severed /\ s.clients[x] # NoClient => e \in t.out[s.clients[x]]
  BY SafeWriteFades, StreamerElim DEF Declines, Tells, Keeps
<1> QED BY <1>1 DEF Reaches

LEMMA SpeechAbortedDeclines ==
    ASSUME NEW I, NEW R, NEW E, NEW s \in Streamer(I, R, E), NEW x \in I, NEW severed,
           Sayable(E, x), NEW t, t = SpeechAborted(s, x, severed)
    PROVE  t \in Streamer(I, R, E) /\ Declines(s, t, severed, {x})
<1>1. /\ t \in Streamer(I, R, E) /\ Fades(s, t) /\ t.observers = s.observers
      /\ \A y \in I : y # x => t.clients[y] = s.clients[y]
  BY SpeechAbortedFades
<1>2. Keeps(s, t, severed, {x}) BY <1>1, StreamerElim DEF Keeps
<1>3. Tells(s, t, severed) BY <1>1 DEF Tells
<1> QED BY <1>1, <1>2, <1>3 DEF Declines

LEMMA HeartbeatDeclines ==
    ASSUME NEW I, NEW R, NEW E, NEW s \in Streamer(I, R, E), NEW severed,
           NEW t, t = Heartbeat(s, severed)
    PROVE  t \in Streamer(I, R, E) /\ Declines(s, t, severed, {})
BY HeartbeatFades, StreamerElim DEF Declines, Tells, Keeps

----------------------------------------------------------------------------
(***************************************************************************)
(* The type invariant in parts                                             *)
(***************************************************************************)
Request == [pc : Pcs, todo : SUBSET Listeners, tokens : 0 .. MaxTokens, dropped : Nat,
            built : BOOLEAN, tries : 0 .. 3, received : SUBSET {"SUCCESS", "ERROR"}]

Command == [op : {"subscribe", "unsubscribe"}, chat : Chats, by : Requests \cup {NoOne}]

Stages == {"absent", "registered", "opening", "beating", "listening", "deaf", "closing", "gone"}

SetupTyped == setup \in Setups

ReqTyped == req \in [Requests -> Request]

SseTyped == sse \in [Replicas -> Streamer(Ids, Responses, Events)]

RedisTyped ==
    /\ subscribed \in [Replicas -> SUBSET Chats]
    /\ handlers \in [Replicas -> [Chats -> Nat]]
    /\ commands \in [Replicas -> Seq(Command)]
    /\ \A s \in Replicas : Len(commands[s]) <= MaxCommands

RunTyped ==
    /\ wire \in Seq(Requests)
    /\ job \in [Requests -> {"none", "waiting", "active", "completed", "failed"}]
    /\ pool \in [Chats -> Requests \cup {NoRun}]
    /\ aborted \subseteq Requests
    /\ abortEvents \in Seq(Chats)

PanelTyped == panel \in [Listeners -> Stages] /\ registry \subseteq Listeners
                /\ binds \subseteq Chats \X Listeners

FaultTyped ==
    /\ broken \subseteq closed /\ closed \subseteq Responses
    /\ forgotten \subseteq Replicas \X Chats
    /\ budget \in [faults : 0 .. MaxFaults, clicks : 0 .. MaxClicks]

DisturbedTyped == disturbed \subseteq Requests

LEMMA TypeParts ==
    TypeOK <=> /\ SetupTyped /\ ReqTyped /\ SseTyped /\ RedisTyped /\ RunTyped /\ PanelTyped
               /\ FaultTyped /\ DisturbedTyped
BY DEF TypeOK, SetupTyped, ReqTyped, SseTyped, RedisTyped, RunTyped, PanelTyped, FaultTyped,
       DisturbedTyped, Request, Command, Stages

LEMMA TypePartsNext ==
    TypeOK' <=> /\ SetupTyped' /\ ReqTyped' /\ SseTyped' /\ RedisTyped' /\ RunTyped' /\ PanelTyped'
                /\ FaultTyped' /\ DisturbedTyped'
BY DEF TypeOK, SetupTyped, ReqTyped, SseTyped, RedisTyped, RunTyped, PanelTyped, FaultTyped,
       DisturbedTyped, Request, Command, Stages

\* A part whose variables do not change keeps its type.
LEMMA PartsKept ==
    ASSUME TypeOK
    PROVE  /\ UNCHANGED setup => SetupTyped'
           /\ UNCHANGED req => ReqTyped'
           /\ UNCHANGED sse => SseTyped'
           /\ UNCHANGED redisVars => RedisTyped'
           /\ UNCHANGED runVars => RunTyped'
           /\ UNCHANGED panelVars => PanelTyped'
           /\ UNCHANGED faultVars => FaultTyped'
           /\ UNCHANGED disturbed => DisturbedTyped'
<1> USE TypeParts
<1>1. UNCHANGED setup => SetupTyped' BY DEF SetupTyped
<1>2. UNCHANGED req => ReqTyped' BY DEF ReqTyped
<1>3. UNCHANGED sse => SseTyped' BY DEF SseTyped
<1>4. UNCHANGED redisVars => RedisTyped' BY DEF RedisTyped, redisVars
<1>5. UNCHANGED runVars => RunTyped' BY DEF RunTyped, runVars
<1>6. UNCHANGED panelVars => PanelTyped' BY DEF PanelTyped, panelVars
<1>7. UNCHANGED faultVars => FaultTyped' BY DEF FaultTyped, faultVars
<1>8. UNCHANGED disturbed => DisturbedTyped' BY DEF DisturbedTyped
<1> QED BY <1>1, <1>2, <1>3, <1>4, <1>5, <1>6, <1>7, <1>8

LEMMA SetupElim ==
    ASSUME SetupTyped
    PROVE  /\ setup \in Setup
           /\ \A r \in Requests : Home(r) \in Replicas /\ ChatOf(r) \in Chats /\ Kind(r) \in Kinds
           /\ \A l \in Listeners : setup.seat[l] \in Replicas
           /\ setup.panels \subseteq Listeners
           /\ setup.faults \in 0 .. MaxFaults /\ setup.clicks \in 0 .. MaxClicks
<1>1. setup \in Setup BY StreamsAssumption DEF StreamsAssumption, SetupTyped
<1> QED BY <1>1 DEF Setup, Home, ChatOf, Kind

LEMMA RequestElim ==
    ASSUME NEW x \in Request
    PROVE  /\ x.pc \in Pcs /\ x.todo \in SUBSET Listeners /\ x.tokens \in 0 .. MaxTokens
           /\ x.dropped \in Nat /\ x.built \in BOOLEAN /\ x.tries \in 0 .. 3
           /\ x.received \in SUBSET {"SUCCESS", "ERROR"}
BY DEF Request

----------------------------------------------------------------------------
(***************************************************************************)
(* Who changes what                                                        *)
(***************************************************************************)
LEMMA SetupStays ==
    ASSUME [Next]_vars
    PROVE  setup' = setup
<1>1. ASSUME NEW r \in Requests, Begin(r) PROVE setup' = setup
  BY <1>1 DEF Begin, BeginStream, BeginJson, BeginHook
<1>2. ASSUME NEW r \in Requests, Serve(r) PROVE setup' = setup
  BY <1>2 DEF Serve, BindHere, BindThere, RejectBound, OpenBound, Refuse, Accept, Emit, EndRun,
              SeeResult, CountFails, CloseStream, ReplyJson, CloseHook, BeginCallback, CallBack,
              CallFails
<1>3. ASSUME NEW r \in Requests, Work(r) \/ LoseClient(r) PROVE setup' = setup
  BY <1>3 DEF Work, TakeJob, Publish, EndJob, LoseClient
<1>4. ASSUME NEW s \in Replicas, RedisAnswers(s) \/ CleanUp(s) \/ StreamerBeats(s) \/ Miss(s)
      PROVE  setup' = setup
  BY <1>4 DEF Miss, RedisAnswers, Answer, Refusal, CleanUp, StreamerBeats
<1>5. ASSUME NEW c \in Chats, \/ \E l \in Listeners : BindArrives(c, l)
                              \/ AbortChat(c) \/ \E s \in Replicas : AbortSpeech(s, c)
      PROVE  setup' = setup
  BY <1>5 DEF BindArrives, AbortChat, AbortSpeech
<1>6. ASSUME NEW l \in Listeners, \/ Register(l) \/ OpenPanel(l) \/ Attach(l) \/ Detach(l)
                                  \/ Beat(l) \/ Dismiss(l) \/ ClosePanel(l)
      PROVE  setup' = setup
  BY <1>6 DEF Register, OpenPanel, Attach, Detach, AttachPanel, FirstBeat, Hangup, Unregister, Beat,
              Dismiss, ClosePanel
<1>7. CASE WorkerDies \/ Deliver \/ AbortArrives \/ Evict \/ UNCHANGED vars
  BY <1>7 DEF WorkerDies, Deliver, AbortArrives, Evict, vars
<1> QED BY <1>1, <1>2, <1>3, <1>4, <1>5, <1>6, <1>7 DEF Next

LEMMA ReqChanges ==
    ASSUME Next, req' # req
    PROVE  \/ \E r \in Requests :
                 \/ BeginStream(r) \/ BeginJson(r) \/ BeginHook(r) \/ RejectBound(r)
                 \/ OpenBound(r) \/ Refuse(r) \/ Accept(r) \/ Emit(r) \/ EndRun(r)
                 \/ SeeResult(r) \/ CountFails(r) \/ CloseStream(r) \/ ReplyJson(r)
                 \/ CloseHook(r) \/ BeginCallback(r) \/ CallBack(r) \/ CallFails(r)
                 \/ Publish(r) \/ \E l \in Listeners : BindHere(r, l) \/ BindThere(r, l)
           \/ \E s \in Replicas : RedisAnswers(s) \/ Miss(s)
BY DEF Next, Begin, Serve, Work, Attach, Detach, TakeJob, EndJob, LoseClient, WorkerDies,
       Deliver, AbortArrives, Evict, BindArrives, CleanUp, StreamerBeats, AbortChat, AbortSpeech,
       Register, OpenPanel, AttachPanel, FirstBeat, Hangup, Unregister, Beat, Dismiss, ClosePanel

LEMMA SseChanges ==
    ASSUME Next, sse' # sse
    PROVE  \/ \E r \in Requests :
                 \/ BeginStream(r) \/ BeginHook(r) \/ RejectBound(r) \/ OpenBound(r) \/ Emit(r)
                 \/ CloseStream(r) \/ ReplyJson(r) \/ CloseHook(r) \/ CallBack(r)
                 \/ CallFails(r) \/ \E l \in Listeners : BindHere(r, l)
           \/ Deliver
           \/ \E c \in Chats, l \in Listeners : BindArrives(c, l)
           \/ \E s \in Replicas : RedisAnswers(s) \/ StreamerBeats(s) \/ Miss(s)
           \/ \E s \in Replicas, c \in Chats : AbortSpeech(s, c)
           \/ \E l \in Listeners : AttachPanel(l) \/ Hangup(l)
BY DEF Next, Begin, Serve, Work, Attach, Detach, BeginJson, Refuse, Accept, EndRun,
       SeeResult, CountFails, BeginCallback, TakeJob, Publish, EndJob, LoseClient, BindThere,
       WorkerDies, AbortArrives, Evict, CleanUp, AbortChat, Register, OpenPanel, FirstBeat,
       Unregister, Beat, Dismiss, ClosePanel

LEMMA RedisChanges ==
    ASSUME Next, redisVars' # redisVars
    PROVE  \/ \E r \in Requests :
                 \/ BeginStream(r) \/ CloseStream(r) \/ \E l \in Listeners : BindHere(r, l)
           \/ \E c \in Chats, l \in Listeners : BindArrives(c, l)
           \/ \E s \in Replicas : RedisAnswers(s) \/ CleanUp(s)
BY DEF Next, Begin, Serve, Work, Attach, Detach, BeginJson, BeginHook, RejectBound,
       OpenBound, Refuse, Accept, Emit, EndRun, SeeResult, CountFails, ReplyJson, CloseHook,
       BeginCallback, CallBack, CallFails, TakeJob, Publish, EndJob, LoseClient, BindThere,
       WorkerDies, Deliver, Miss, AbortArrives, Evict, StreamerBeats, AbortChat, AbortSpeech, Register,
       OpenPanel, AttachPanel, FirstBeat, Hangup, Unregister, Beat, Dismiss, ClosePanel

LEMMA RunChanges ==
    ASSUME Next, runVars' # runVars
    PROVE  \/ \E r \in Requests :
                 \/ Refuse(r) \/ Accept(r) \/ EndRun(r) \/ CountFails(r) \/ TakeJob(r)
                 \/ Publish(r) \/ EndJob(r)
           \/ WorkerDies
           \/ Deliver
           \/ AbortArrives
           \/ \E s \in Replicas : RedisAnswers(s) \/ Miss(s)
           \/ \E c \in Chats : AbortChat(c)
BY ZenonT(60) DEF Next, Begin, Serve, Work, Attach, Detach, BeginStream, BeginJson, BeginHook,
       RejectBound, OpenBound, Emit, SeeResult, CloseStream, ReplyJson, CloseHook, BeginCallback,
       CallBack, CallFails, LoseClient, BindHere, BindThere, Evict, BindArrives, CleanUp,
       StreamerBeats, AbortSpeech, Register, OpenPanel, AttachPanel, FirstBeat, Hangup,
       Unregister, Beat, Dismiss, ClosePanel

LEMMA PanelChanges ==
    ASSUME Next, panelVars' # panelVars
    PROVE  \/ \E r \in Requests : \E l \in Listeners : BindThere(r, l)
           \/ Evict
           \/ \E c \in Chats, l \in Listeners : BindArrives(c, l)
           \/ \E s \in Replicas : RedisAnswers(s)
           \/ \E l \in Listeners :
                 \/ Register(l) \/ OpenPanel(l) \/ AttachPanel(l) \/ FirstBeat(l) \/ Hangup(l)
                 \/ Unregister(l) \/ Beat(l) \/ Dismiss(l)
BY DEF Next, Begin, Serve, Work, Attach, Detach, BeginStream, BeginJson, BeginHook,
       RejectBound, OpenBound, Refuse, Accept, Emit, EndRun, SeeResult, CountFails, CloseStream,
       ReplyJson, CloseHook, BeginCallback, CallBack, CallFails, TakeJob, Publish, EndJob,
       LoseClient, BindHere, WorkerDies, Deliver, Miss, AbortArrives, CleanUp, StreamerBeats, AbortChat,
       AbortSpeech, ClosePanel

LEMMA FaultChanges ==
    ASSUME Next, faultVars' # faultVars
    PROVE  \/ \E r \in Requests :
                 \/ CountFails(r) \/ LoseClient(r) \/ Publish(r)
                 \/ \E l \in Listeners : BindThere(r, l)
           \/ WorkerDies
           \/ \E s \in Replicas : RedisAnswers(s) \/ Miss(s)
           \/ \E c \in Chats : AbortChat(c)
           \/ \E s \in Replicas, c \in Chats : AbortSpeech(s, c)
           \/ \E l \in Listeners : FirstBeat(l) \/ Unregister(l) \/ Dismiss(l) \/ ClosePanel(l)
BY DEF Next, Begin, Serve, Work, Attach, Detach, BeginStream, BeginJson, BeginHook,
       RejectBound, OpenBound, Refuse, Accept, Emit, EndRun, SeeResult, CloseStream, ReplyJson,
       CloseHook, BeginCallback, CallBack, CallFails, TakeJob, EndJob, BindHere, Deliver,
       AbortArrives, Evict, BindArrives, CleanUp, StreamerBeats, Register, OpenPanel, AttachPanel,
       Hangup, Beat

LEMMA DisturbedChanges ==
    ASSUME Next, disturbed' # disturbed
    PROVE  \/ \E r \in Requests : BeginStream(r) \/ BeginJson(r) \/ BeginHook(r)
           \/ \E s \in Replicas : RedisAnswers(s)
           \/ \E s \in Replicas, c \in Chats : AbortSpeech(s, c)
BY ZenonT(60) DEF Next, Begin, Serve, Work, Attach, Detach, RejectBound, OpenBound, Refuse, Accept,
       Emit, EndRun, SeeResult, CountFails, CloseStream, ReplyJson, CloseHook, BeginCallback,
       CallBack, CallFails, TakeJob, Publish, EndJob, LoseClient, BindHere, BindThere, WorkerDies,
       Deliver, Miss, AbortArrives, Evict, BindArrives, CleanUp, StreamerBeats, AbortChat, Register,
       OpenPanel, AttachPanel, FirstBeat, Hangup, Unregister, Beat, Dismiss, ClosePanel

----------------------------------------------------------------------------
(***************************************************************************)
(* Where a request can be, and which command it waits for                  *)
(***************************************************************************)
VerdictOf(x) == IF x.built THEN "SUCCESS" ELSE "ERROR"

\* A request with local state x and a job in state j: each place belongs to a
\* kind of request and a mode, an open job is waited for, and what the endpoint
\* of a callback has received is the one verdict that is sent.
Fits(r, x, j) ==
    /\ x.pc \in {"binding", "bindSubscribing", "bound", "rejected"} => Kind(r) \in Hooks
    /\ x.pc = "calling" => Kind(r) = "hookCallback" /\ x.tries <= 2
    /\ x.pc \in {"subscribing", "unsubscribing"} => Kind(r) = "stream" /\ Queued
    /\ x.pc = "running" => ~Queued
    /\ x.pc = "waiting" => Queued
    /\ j # "none" => Queued
    /\ j \in {"waiting", "active"} => x.pc = "waiting"
    /\ x.pc \notin {"calling", "done"} => x.tries = 0 /\ x.received = {}
    /\ x.received \subseteq {VerdictOf(x)}

RequestsFit == \A r \in Requests : Fits(r, req[r], job[r])

AwaitingPcs(op) ==
    IF op = "subscribe" THEN {"subscribing", "bindSubscribing"} ELSE {"unsubscribing"}

\* Whoever a command of replica s is for waits for it, there, and for no other.
Awaited(s, cs, rq) ==
    \A i \in DOMAIN cs : cs[i].by # NoOne =>
        /\ Home(cs[i].by) = s /\ ChatOf(cs[i].by) = cs[i].chat
        /\ rq[cs[i].by].pc \in AwaitingPcs(cs[i].op)
        /\ \A j \in DOMAIN cs : cs[j].by = cs[i].by => j = i

CommandsAwaited == \A s \in Replicas : Awaited(s, commands[s], req)

Basics == TypeOK /\ RequestsFit /\ CommandsAwaited

LEMMA MoveEffect ==
    ASSUME ReqTyped, NEW r \in Requests, NEW x \in Request, req' = [req EXCEPT ![r] = x]
    PROVE  ReqTyped' /\ req'[r] = x /\ \A q \in Requests \ {r} : req'[q] = req[q]
BY DEF ReqTyped

LEMMA FitsOne ==
    ASSUME RequestsFit, setup' = setup, NEW r \in Requests,
           \A q \in Requests \ {r} : req'[q] = req[q] /\ job'[q] = job[q],
           Fits(r, req'[r], job'[r])
    PROVE  RequestsFit'
BY DEF RequestsFit, Fits, Kind, Queued

LEMMA FitsStays ==
    ASSUME RequestsFit, setup' = setup, req' = req, job' = job
    PROVE  RequestsFit'
BY DEF RequestsFit, Fits, Kind, Queued

Awaiting == {"subscribing", "bindSubscribing", "unsubscribing"}

\* No command is under way for a request that does not wait for one.
LEMMA AwaitedElim ==
    ASSUME Basics, NEW s \in Replicas, NEW i \in DOMAIN commands[s], commands[s][i].by # NoOne
    PROVE  /\ commands[s][i].by \in Requests /\ Home(commands[s][i].by) = s
           /\ ChatOf(commands[s][i].by) = commands[s][i].chat
           /\ req[commands[s][i].by].pc \in AwaitingPcs(commands[s][i].op)
           /\ req[commands[s][i].by].pc \in Awaiting
           /\ \A j \in DOMAIN commands[s] : commands[s][j].by = commands[s][i].by => j = i
<1>1. commands[s] \in Seq(Command) BY TypeParts DEF Basics, RedisTyped
<1>2. commands[s][i] \in Command BY <1>1
<1>3. commands[s][i].by \in Requests BY <1>2 DEF Command
<1> QED BY <1>3 DEF Basics, CommandsAwaited, Awaited, AwaitingPcs, Awaiting

\* Those who wait stay where they are.
WaitersStay == \A q \in Requests : req[q].pc \in Awaiting => req'[q].pc = req[q].pc

LEMMA AwaitedKept ==
    ASSUME Basics, setup' = setup, commands' = commands, WaitersStay
    PROVE  CommandsAwaited'
<1>1. ASSUME NEW s \in Replicas, NEW i \in DOMAIN commands[s], commands[s][i].by # NoOne
      PROVE  /\ Home(commands[s][i].by) = s
             /\ ChatOf(commands[s][i].by) = commands[s][i].chat
             /\ req'[commands[s][i].by].pc \in AwaitingPcs(commands[s][i].op)
             /\ \A j \in DOMAIN commands[s] : commands[s][j].by = commands[s][i].by => j = i
  BY <1>1, AwaitedElim DEF WaitersStay
<1> QED BY <1>1 DEF CommandsAwaited, Awaited, Home, ChatOf

LEMMA AwaitedSent ==
    ASSUME Basics, setup' = setup, WaitersStay, NEW s \in Replicas, NEW h \in Command,
           commands' = [commands EXCEPT ![s] = Append(commands[s], h)],
           h.by # NoOne => /\ Home(h.by) = s /\ ChatOf(h.by) = h.chat
                           /\ req[h.by].pc \notin Awaiting
                           /\ req'[h.by].pc \in AwaitingPcs(h.op)
    PROVE  CommandsAwaited'
<1>0. commands \in [Replicas -> Seq(Command)] BY TypeParts DEF Basics, RedisTyped
<1>1. ASSUME NEW z \in Replicas, NEW i \in DOMAIN commands'[z], commands'[z][i].by # NoOne
      PROVE  /\ Home(commands'[z][i].by) = z
             /\ ChatOf(commands'[z][i].by) = commands'[z][i].chat
             /\ req'[commands'[z][i].by].pc \in AwaitingPcs(commands'[z][i].op)
             /\ \A j \in DOMAIN commands'[z] : commands'[z][j].by = commands'[z][i].by => j = i
  <2>1. CASE z # s
    <3>1. commands'[z] = commands[z] BY <2>1, <1>0
    <3> QED BY <3>1, <1>1, AwaitedElim DEF WaitersStay
  <2>2. CASE z = s
    <3> DEFINE n == Len(commands[s])
    <3>1. commands[s] \in Seq(Command) /\ n \in Nat BY <1>0
    <3>2. commands'[z] = Append(commands[s], h) BY <2>2, <1>0
    <3>3. /\ DOMAIN commands'[z] = 1 .. n + 1 /\ DOMAIN commands[s] = 1 .. n
          /\ commands'[z][n + 1] = h
          /\ \A j \in 1 .. n : commands'[z][j] = commands[s][j]
      BY <3>1, <3>2, AppendProperties
    <3> HIDE DEF n
    <3>4. \A j \in 1 .. n : commands[s][j].by # NoOne => commands[s][j].by # h.by
      BY <3>3, AwaitedElim
    <3>5. CASE i = n + 1
      <4>1. commands'[z][i] = h BY <3>3, <3>5
      <4>2. \A j \in DOMAIN commands'[z] : commands'[z][j].by = h.by => j = i
        BY <4>1, <1>1, <3>1, <3>3, <3>4, <3>5
      <4> QED BY <4>1, <4>2, <1>1, <2>2
    <3>6. CASE i # n + 1
      <4>1. i \in 1 .. n BY <3>1, <3>3, <3>6
      <4>2. commands'[z][i] = commands[s][i] /\ i \in DOMAIN commands[s] BY <4>1, <3>3
      <4>3. \A j \in 1 .. n : commands[s][j].by = commands[s][i].by => j = i
        BY <4>2, <1>1, <3>3, AwaitedElim
      <4>4. \A j \in DOMAIN commands'[z] : commands'[z][j].by = commands[s][i].by => j = i
        BY <4>1, <4>2, <4>3, <1>1, <3>1, <3>3, <3>4
      <4> QED BY <4>2, <4>4, <1>1, <2>2, AwaitedElim DEF WaitersStay
    <3> QED BY <3>5, <3>6
  <2> QED BY <2>1, <2>2
<1> QED BY <1>1 DEF CommandsAwaited, Awaited, Home, ChatOf

LEMMA AwaitedCleaned ==
    ASSUME Basics, setup' = setup, req' = req, NEW s \in Replicas, NEW new \in Seq(Command),
           \A i \in 1 .. Len(new) : new[i].by = NoOne,
           commands' = [commands EXCEPT ![s] = commands[s] \o new]
    PROVE  CommandsAwaited'
<1>0. commands \in [Replicas -> Seq(Command)] BY TypeParts DEF Basics, RedisTyped
<1>1. ASSUME NEW z \in Replicas, NEW i \in DOMAIN commands'[z], commands'[z][i].by # NoOne
      PROVE  /\ Home(commands'[z][i].by) = z
             /\ ChatOf(commands'[z][i].by) = commands'[z][i].chat
             /\ req[commands'[z][i].by].pc \in AwaitingPcs(commands'[z][i].op)
             /\ \A j \in DOMAIN commands'[z] : commands'[z][j].by = commands'[z][i].by => j = i
  <2>1. CASE z # s
    <3>1. commands'[z] = commands[z] BY <2>1, <1>0
    <3> QED BY <3>1, <1>1, AwaitedElim
  <2>2. CASE z = s
    <3> DEFINE n == Len(commands[s]) m == Len(new)
    <3>1. commands[s] \in Seq(Command) /\ n \in Nat /\ m \in Nat BY <1>0
    <3>2. commands'[z] = commands[s] \o new BY <2>2, <1>0
    <3>3. /\ DOMAIN commands'[z] = 1 .. n + m /\ DOMAIN commands[s] = 1 .. n
          /\ \A j \in 1 .. n : commands'[z][j] = commands[s][j]
          /\ \A j \in n + 1 .. n + m : commands'[z][j].by = NoOne
      <4>1. DOMAIN commands'[z] = 1 .. n + m /\ DOMAIN commands[s] = 1 .. n
        BY <3>1, <3>2, ConcatProperties
      <4>2. \A j \in 1 .. n + m : commands'[z][j] = IF j <= n THEN commands[s][j] ELSE new[j - n]
        BY <3>1, <3>2, ConcatProperties
      <4> QED BY <4>1, <4>2, <3>1
    <3> HIDE DEF n, m
    <3>4. \A j \in DOMAIN commands'[z] : j \in 1 .. n \/ commands'[z][j].by = NoOne
      BY <3>1, <3>3
    <3>5. i \in 1 .. n /\ commands'[z][i] = commands[s][i] /\ i \in DOMAIN commands[s]
      BY <3>3, <3>4, <1>1
    <3>6. \A j \in DOMAIN commands'[z] : commands'[z][j].by = commands[s][i].by => j = i
      BY <3>3, <3>4, <3>5, <1>1, AwaitedElim
    <3> QED BY <3>5, <3>6, <1>1, <2>2, AwaitedElim
  <2> QED BY <2>1, <2>2
<1> QED BY <1>1 DEF CommandsAwaited, Awaited, Home, ChatOf

LEMMA AwaitedAnswered ==
    ASSUME Basics, setup' = setup, NEW s \in Replicas, commands[s] # <<>>,
           commands' = [commands EXCEPT ![s] = Tail(commands[s])],
           \A q \in Requests : q # Head(commands[s]).by /\ req[q].pc \in Awaiting
                                  => req'[q].pc = req[q].pc
    PROVE  CommandsAwaited'
<1> DEFINE h == Head(commands[s])
<1>0. /\ commands \in [Replicas -> Seq(Command)] /\ commands[s] \in Seq(Command)
      /\ 1 \in DOMAIN commands[s] /\ h = commands[s][1] /\ h \in Command
  BY TypeParts DEF Basics, RedisTyped
<1> HIDE DEF h
<1>a. h = Head(commands[s]) BY DEF h
<1>1. ASSUME NEW z \in Replicas, NEW i \in DOMAIN commands'[z], commands'[z][i].by # NoOne
      PROVE  /\ Home(commands'[z][i].by) = z
             /\ ChatOf(commands'[z][i].by) = commands'[z][i].chat
             /\ req'[commands'[z][i].by].pc \in AwaitingPcs(commands'[z][i].op)
             /\ \A j \in DOMAIN commands'[z] : commands'[z][j].by = commands'[z][i].by => j = i
  <2>1. CASE z # s
    <3>1. commands'[z] = commands[z] BY <2>1, <1>0
    <3>2. /\ commands[z][i].by \in Requests /\ Home(commands[z][i].by) = z
          /\ ChatOf(commands[z][i].by) = commands[z][i].chat
          /\ req[commands[z][i].by].pc \in AwaitingPcs(commands[z][i].op)
          /\ req[commands[z][i].by].pc \in Awaiting
          /\ \A j \in DOMAIN commands[z] : commands[z][j].by = commands[z][i].by => j = i
      BY <3>1, <1>1, AwaitedElim
    <3>3. commands[z][i].by # h.by
      BY <3>1, <3>2, <1>0, <1>1, <2>1, AwaitedElim
    <3> QED BY <3>1, <3>2, <3>3, <1>a
  <2>2. CASE z = s
    <3> DEFINE n == Len(commands[s])
    <3>1. n \in Nat /\ n >= 1 /\ DOMAIN commands[s] = 1 .. n BY <1>0
    <3>2. commands'[z] = Tail(commands[s]) BY <2>2, <1>0
    <3>3. /\ DOMAIN commands'[z] = 1 .. n - 1
          /\ \A j \in 1 .. n - 1 : commands'[z][j] = commands[s][j + 1]
      <4>1. /\ Tail(commands[s]) \in Seq(Command) /\ Len(Tail(commands[s])) = n - 1
            /\ \A j \in 1 .. Len(Tail(commands[s])) : Tail(commands[s])[j] = commands[s][j + 1]
        BY <1>0, HeadTailProperties
      <4>2. DOMAIN Tail(commands[s]) = 1 .. n - 1 BY <4>1
      <4> QED BY <4>1, <4>2, <3>2
    <3> HIDE DEF n
    <3>4. /\ i \in 1 .. n - 1 /\ i + 1 \in DOMAIN commands[s]
          /\ commands'[z][i] = commands[s][i + 1]
      BY <3>1, <3>3
    <3>5. /\ commands[s][i + 1].by \in Requests /\ Home(commands[s][i + 1].by) = s
          /\ ChatOf(commands[s][i + 1].by) = commands[s][i + 1].chat
          /\ req[commands[s][i + 1].by].pc \in AwaitingPcs(commands[s][i + 1].op)
          /\ req[commands[s][i + 1].by].pc \in Awaiting
          /\ \A j \in DOMAIN commands[s] : commands[s][j].by = commands[s][i + 1].by => j = i + 1
      BY <3>4, <1>1, AwaitedElim
    <3>6. commands[s][i + 1].by # h.by
      BY <3>1, <3>4, <3>5, <1>0
    <3>7. \A j \in DOMAIN commands'[z] : commands'[z][j].by = commands'[z][i].by => j = i
      <4>1. SUFFICES ASSUME NEW j \in 1 .. n - 1, commands'[z][j].by = commands'[z][i].by
                     PROVE  j = i
        BY <3>3
      <4>2. j + 1 \in DOMAIN commands[s] /\ commands[s][j + 1].by = commands[s][i + 1].by
        BY <4>1, <3>1, <3>3, <3>4
      <4>3. j + 1 = i + 1 BY <4>2, <3>5
      <4> QED BY <4>3, <3>1, <3>4
    <3> QED BY <3>4, <3>5, <3>6, <3>7, <2>2, <1>a
  <2> QED BY <2>1, <2>2
<1> QED BY <1>1 DEF CommandsAwaited, Awaited, Home, ChatOf

----------------------------------------------------------------------------
(***************************************************************************)
(* The steps of a request                                                  *)
(***************************************************************************)
Moves ==
    {"idle"} \X {"subscribing", "checking", "binding", "bound"}
    \cup {"binding"} \X {"bindSubscribing", "bound"}
    \cup {"bindSubscribing"} \X {"binding", "bound"}
    \cup {"bound"} \X {"rejected", "checking"}
    \cup {"subscribing"} \X {"checking", "failed"}
    \cup {"checking"} \X {"failed", "waiting", "running"}
    \cup {"waiting", "running"} \X {"counting", "failed"}
    \cup {"counting"} \X {"failed", "unsubscribing", "calling", "done"}
    \cup {"failed"} \X {"unsubscribing", "calling", "done"}
    \cup {"unsubscribing", "calling"} \X {"done"}

Moving == \A q \in Requests : req'[q].pc = req[q].pc \/ <<req[q].pc, req'[q].pc>> \in Moves

\* What a step of a request that waits for no command comes to.
ReqStep == ReqTyped' /\ RequestsFit' /\ WaitersStay /\ Moving

LEMMA StandStill ==
    ASSUME Basics, setup' = setup, req' = req, job' = job
    PROVE  ReqStep
BY FitsStays, TypeParts DEF Basics, ReqStep, ReqTyped, WaitersStay, Moving

LEMMA StepOne ==
    ASSUME Basics, setup' = setup, NEW r \in Requests, NEW x \in Request,
           req' = [req EXCEPT ![r] = x], \A q \in Requests \ {r} : job'[q] = job[q],
           Fits(r, x, job'[r]), req[r].pc \notin Awaiting \/ x.pc = req[r].pc,
           x.pc = req[r].pc \/ <<req[r].pc, x.pc>> \in Moves
    PROVE  ReqStep
<1>1. ReqTyped' /\ req'[r] = x /\ \A q \in Requests \ {r} : req'[q] = req[q]
  BY MoveEffect, TypeParts DEF Basics
<1>2. RequestsFit' BY <1>1, FitsOne DEF Basics
<1>3. WaitersStay BY <1>1 DEF WaitersStay
<1>4. Moving BY <1>1 DEF Moving
<1> QED BY <1>1, <1>2, <1>3, <1>4 DEF ReqStep

\* A request that is not at its callback and has no open job goes to p.
LEMMA GotoStep ==
    ASSUME Basics, setup' = setup, NEW r \in Requests, NEW p \in Pcs, Goto(r, p), job' = job,
           req[r].pc \notin Awaiting \cup {"calling", "done"},
           job[r] \notin {"waiting", "active"},
           <<req[r].pc, p>> \in Moves,
           p # "calling",
           p \in {"binding", "bindSubscribing", "bound", "rejected"} => Kind(r) \in Hooks,
           p \in {"subscribing", "unsubscribing"} => Kind(r) = "stream" /\ Queued,
           p = "running" => ~Queued,
           p = "waiting" => Queued
    PROVE  ReqStep
<1> DEFINE x == [req[r] EXCEPT !.pc = p]
<1>1. req[r] \in Request BY TypeParts DEF Basics, ReqTyped
<1>2. x \in Request /\ x.pc = p /\ x.tries = req[r].tries /\ x.received = req[r].received
      /\ x.built = req[r].built
  BY <1>1 DEF Request
<1>3. req' = [req EXCEPT ![r] = x] BY DEF Goto
<1>4. Fits(r, req[r], job[r]) BY DEF Basics, RequestsFit
<1> HIDE DEF x
<1>5. Fits(r, x, job[r]) BY <1>2, <1>4 DEF Fits
<1> QED BY <1>2, <1>3, <1>5, StepOne

LEMMA RequestFits ==
    ASSUME Basics, NEW r \in Requests
    PROVE  /\ req[r] \in Request /\ Fits(r, req[r], job[r])
           /\ job[r] \in {"none", "waiting", "active", "completed", "failed"}
BY TypeParts DEF Basics, RequestsFit, ReqTyped, RunTyped

LEMMA BeginStreamReq ==
    ASSUME Basics, setup' = setup, NEW r \in Requests, BeginStream(r)
    PROVE  ReqStep
<1> DEFINE p == IF Queued /\ ChatOf(r) \notin subscribed[Home(r)] THEN "subscribing" ELSE "checking"
<1>1. /\ req[r].pc = "idle" /\ Kind(r) = "stream" /\ Goto(r, p) /\ job' = job
      /\ p \in {"subscribing", "checking"} /\ (p = "subscribing" => Queued)
  BY DEF BeginStream, runVars
<1> HIDE DEF p
<1>2. job[r] \notin {"waiting", "active"} BY <1>1, RequestFits DEF Fits
<1>3. p \in Pcs /\ <<req[r].pc, p>> \in Moves BY <1>1 DEF Pcs, Moves
<1> QED BY <1>1, <1>2, <1>3, GotoStep DEF Awaiting

LEMMA BeginJsonReq ==
    ASSUME Basics, setup' = setup, NEW r \in Requests, BeginJson(r)
    PROVE  ReqStep
<1>1. req[r].pc = "idle" /\ Goto(r, "checking") /\ job' = job BY DEF BeginJson, runVars
<1>2. job[r] \notin {"waiting", "active"} BY <1>1, RequestFits DEF Fits
<1>3. "checking" \in Pcs /\ <<req[r].pc, "checking">> \in Moves BY <1>1 DEF Pcs, Moves
<1> QED BY <1>1, <1>2, <1>3, GotoStep DEF Awaiting

LEMMA BeginHookReq ==
    ASSUME Basics, setup' = setup, NEW r \in Requests, BeginHook(r)
    PROVE  ReqStep
<1>1. req[r].pc = "idle" /\ Kind(r) \in Hooks /\ job' = job BY DEF BeginHook, runVars
<1>2. job[r] \notin {"waiting", "active"} /\ Fits(r, req[r], job[r]) BY <1>1, RequestFits DEF Fits
<1>3. CASE Queued
  <2> DEFINE p == AfterBind(registry) x == [req[r] EXCEPT !.pc = p, !.todo = registry]
  <2>1. req' = [req EXCEPT ![r] = x] BY <1>3 DEF BeginHook
  <2>2. p \in {"bound", "binding"} BY DEF AfterBind
  <2>3. registry \subseteq Listeners BY TypeParts DEF Basics, PanelTyped
  <2> HIDE DEF p
  <2>4. x \in Request /\ x.pc = p /\ x.tries = req[r].tries /\ x.received = req[r].received
        /\ x.built = req[r].built
    BY <2>2, <2>3, RequestFits DEF Request, Pcs
  <2> HIDE DEF x
  <2>5. Fits(r, x, job[r]) BY <1>1, <1>2, <2>2, <2>4 DEF Fits
  <2>6. <<req[r].pc, x.pc>> \in Moves BY <1>1, <2>2, <2>4 DEF Moves
  <2> QED BY <1>1, <2>1, <2>4, <2>5, <2>6, StepOne DEF Awaiting
<1>4. CASE ~Queued
  <2>1. Goto(r, "bound") BY <1>4 DEF BeginHook
  <2>2. "bound" \in Pcs /\ <<req[r].pc, "bound">> \in Moves BY <1>1 DEF Pcs, Moves
  <2> QED BY <1>1, <1>2, <2>1, <2>2, GotoStep DEF Awaiting
<1> QED BY <1>3, <1>4

LEMMA BindHereReq ==
    ASSUME Basics, setup' = setup, NEW r \in Requests, NEW l \in Listeners, BindHere(r, l)
    PROVE  ReqStep
<1> DEFINE todo == req[r].todo \ {l}
           p == IF ChatOf(r) \in subscribed[Home(r)] THEN AfterBind(todo) ELSE "bindSubscribing"
           x == [req[r] EXCEPT !.todo = todo, !.pc = p]
<1>1. /\ req[r].pc = "binding" /\ job' = job /\ req' = [req EXCEPT ![r] = x]
  BY DEF BindHere, runVars
<1>2. Fits(r, req[r], job[r]) BY RequestFits
<1>3. p \in {"bound", "binding", "bindSubscribing"} BY DEF AfterBind
<1>4. todo \subseteq Listeners BY RequestFits, RequestElim
<1> HIDE DEF p, todo
<1>5. x \in Request /\ x.pc = p /\ x.tries = req[r].tries /\ x.received = req[r].received
      /\ x.built = req[r].built
  BY <1>3, <1>4, RequestFits DEF Request, Pcs
<1> HIDE DEF x
<1>6. Fits(r, x, job[r]) BY <1>1, <1>2, <1>3, <1>5 DEF Fits
<1>7. x.pc = req[r].pc \/ <<req[r].pc, x.pc>> \in Moves BY <1>1, <1>3, <1>5 DEF Moves
<1> QED BY <1>1, <1>5, <1>6, <1>7, StepOne DEF Awaiting

LEMMA BindThereReq ==
    ASSUME Basics, setup' = setup, NEW r \in Requests, NEW l \in Listeners, BindThere(r, l)
    PROVE  ReqStep
<1>1. /\ req[r].pc = "binding" /\ job' = job
      /\ \E todo \in SUBSET Listeners : \E p \in {"bound", "binding"} :
            req' = [req EXCEPT ![r].todo = todo, ![r].pc = p]
  <2>1. req[r].todo \ {l} \in SUBSET Listeners BY RequestFits, RequestElim
  <2>2. AfterBind(req[r].todo \ {l}) \in {"bound", "binding"} BY DEF AfterBind
  <2>3. \/ req' = [req EXCEPT ![r].todo = req[r].todo \ {l},
                              ![r].pc = AfterBind(req[r].todo \ {l})]
        \/ req' = [req EXCEPT ![r].todo = {}, ![r].pc = "bound"]
    BY DEF BindThere
  <2> QED BY <2>1, <2>2, <2>3 DEF BindThere, runVars
<1>2. PICK todo \in SUBSET Listeners, p \in {"bound", "binding"} :
         req' = [req EXCEPT ![r].todo = todo, ![r].pc = p]
  BY <1>1
<1> DEFINE x == [req[r] EXCEPT !.todo = todo, !.pc = p]
<1>3. req' = [req EXCEPT ![r] = x] BY <1>2
<1>4. x \in Request /\ x.pc = p /\ x.tries = req[r].tries /\ x.received = req[r].received
      /\ x.built = req[r].built
  BY RequestFits DEF Request, Pcs
<1> HIDE DEF x
<1>5. Fits(r, x, job[r]) BY <1>1, <1>4, RequestFits DEF Fits
<1>6. x.pc = req[r].pc \/ <<req[r].pc, x.pc>> \in Moves BY <1>1, <1>4 DEF Moves
<1> QED BY <1>1, <1>3, <1>4, <1>5, <1>6, StepOne DEF Awaiting

LEMMA BoundReq ==
    ASSUME Basics, setup' = setup, NEW r \in Requests, RejectBound(r) \/ OpenBound(r)
    PROVE  ReqStep
<1>1. PICK p \in {"rejected", "checking"} : Goto(r, p) BY DEF RejectBound, OpenBound
<1>2. req[r].pc = "bound" /\ job' = job BY DEF RejectBound, OpenBound, runVars
<1>3. job[r] \notin {"waiting", "active"} /\ Kind(r) \in Hooks BY <1>2, RequestFits DEF Fits
<1>4. p \in Pcs /\ <<req[r].pc, p>> \in Moves BY <1>2 DEF Pcs, Moves
<1> QED BY <1>1, <1>2, <1>3, <1>4, GotoStep DEF Awaiting

LEMMA RefuseReq ==
    ASSUME Basics, setup' = setup, NEW r \in Requests, Refuse(r)
    PROVE  ReqStep
<1>1. req[r].pc = "checking" /\ Goto(r, "failed") /\ job' = job BY DEF Refuse
<1>2. job[r] \notin {"waiting", "active"} BY <1>1, RequestFits DEF Fits
<1>3. "failed" \in Pcs /\ <<req[r].pc, "failed">> \in Moves BY <1>1 DEF Pcs, Moves
<1> QED BY <1>1, <1>2, <1>3, GotoStep DEF Awaiting

LEMMA AcceptReq ==
    ASSUME Basics, setup' = setup, NEW r \in Requests, Accept(r)
    PROVE  ReqStep
<1>1. req[r].pc = "checking" BY DEF Accept
<1>2. job[r] \notin {"waiting", "active"} /\ Fits(r, req[r], job[r])
  BY <1>1, RequestFits DEF Fits
<1>3. CASE Queued
  <2> DEFINE x == [req[r] EXCEPT !.pc = "waiting"]
  <2>1. req' = [req EXCEPT ![r] = x] /\ job' = [job EXCEPT ![r] = "waiting"]
    BY <1>3 DEF Accept, Goto
  <2>2. x \in Request /\ x.pc = "waiting" /\ x.tries = req[r].tries
        /\ x.received = req[r].received /\ x.built = req[r].built
    BY RequestFits DEF Request, Pcs
  <2> HIDE DEF x
  <2>3. job'[r] = "waiting" /\ \A q \in Requests \ {r} : job'[q] = job[q]
    BY <2>1, TypeParts DEF Basics, RunTyped
  <2>4. Fits(r, x, job'[r]) BY <1>1, <1>2, <1>3, <2>2, <2>3 DEF Fits
  <2>5. <<req[r].pc, x.pc>> \in Moves BY <1>1, <2>2 DEF Moves
  <2> QED BY <1>1, <2>1, <2>2, <2>3, <2>4, <2>5, StepOne DEF Awaiting
<1>4. CASE ~Queued
  <2>1. Goto(r, "running") /\ job' = job BY <1>4 DEF Accept
  <2>2. "running" \in Pcs /\ <<req[r].pc, "running">> \in Moves BY <1>1 DEF Pcs, Moves
  <2> QED BY <1>1, <1>2, <1>4, <2>1, <2>2, GotoStep DEF Awaiting
<1> QED BY <1>3, <1>4

\* An event is emitted, or dropped: only the two numbers change.
Counting(r) ==
    \E n \in 0 .. MaxTokens, d \in Nat :
        req' = [req EXCEPT ![r].tokens = n, ![r].dropped = d]

LEMMA CountingReq ==
    ASSUME Basics, setup' = setup, job' = job, NEW r \in Requests, Counting(r)
    PROVE  ReqStep /\ req'[r].pc = req[r].pc
<1>1. PICK n \in 0 .. MaxTokens, d \in Nat :
         req' = [req EXCEPT ![r].tokens = n, ![r].dropped = d]
  BY DEF Counting
<1> DEFINE x == [req[r] EXCEPT !.tokens = n, !.dropped = d]
<1>2. req' = [req EXCEPT ![r] = x] BY <1>1
<1>3. x \in Request /\ x.pc = req[r].pc /\ x.tries = req[r].tries
      /\ x.received = req[r].received /\ x.built = req[r].built
  BY RequestFits DEF Request
<1> HIDE DEF x
<1>4. Fits(r, x, job[r]) BY <1>3, RequestFits DEF Fits, VerdictOf
<1>5. ReqStep BY <1>2, <1>3, <1>4, StepOne
<1>6. req'[r] = x BY <1>2, <1>3, MoveEffect, TypeParts DEF Basics
<1> QED BY <1>3, <1>5, <1>6

LEMMA EmitCounts ==
    ASSUME Basics, NEW r \in Requests, Emit(r) \/ Publish(r)
    PROVE  Counting(r) /\ job' = job
<1>1. req \in [Requests -> Request] /\ MaxTokens \in Nat
  BY TypeParts, StreamsAssumption DEF Basics, ReqTyped, StreamsAssumption
<1>2. /\ req[r].tokens + 1 \in 0 .. MaxTokens /\ req[r].dropped \in Nat
      /\ req[r].dropped + 1 \in Nat /\ job' = job
  BY <1>1, RequestElim DEF Emit, Publish, runVars
<1>3. \E d \in Nat : req' = [req EXCEPT ![r].tokens = req[r].tokens + 1, ![r].dropped = d]
  <2>1. CASE req' = [req EXCEPT ![r].tokens = req[r].tokens + 1,
                                ![r].dropped = req[r].dropped + 1]
    BY <1>2, <2>1
  <2>2. CASE req' = [req EXCEPT ![r].tokens = req[r].tokens + 1]
    <3>1. req' = [req EXCEPT ![r].tokens = req[r].tokens + 1, ![r].dropped = req[r].dropped]
      BY <1>1, <2>2 DEF Request
    <3> QED BY <1>2, <3>1
  <2> QED BY <2>1, <2>2 DEF Emit, Publish
<1> QED BY <1>2, <1>3 DEF Counting

LEMMA EmitReq ==
    ASSUME Basics, setup' = setup, NEW r \in Requests, Emit(r) \/ Publish(r)
    PROVE  ReqStep
BY EmitCounts, CountingReq

LEMMA MissCounts ==
    ASSUME Basics, NEW s \in Replicas, Miss(s)
    PROVE  Head(wire) \in Requests /\ Counting(Head(wire)) /\ job' = job
<1> DEFINE r == Head(wire)
<1>1. req \in [Requests -> Request] /\ r \in Requests
  BY TypeParts DEF Basics, ReqTyped, RunTyped, Miss
<1>2. req[r].tokens \in 0 .. MaxTokens /\ req[r].dropped \in Nat /\ req[r].tokens \in Nat
  BY <1>1, RequestElim
<1>3. PICK d \in Nat : req' = [req EXCEPT ![r].dropped = d]
  BY <1>2 DEF Miss
<1>4. req' = [req EXCEPT ![r].tokens = req[r].tokens, ![r].dropped = d]
  BY <1>1, <1>3 DEF Request
<1> QED BY <1>1, <1>2, <1>4 DEF Counting, Miss

LEMMA MissReq ==
    ASSUME Basics, setup' = setup, NEW s \in Replicas, Miss(s)
    PROVE  ReqStep
BY MissCounts, CountingReq

LEMMA EndRunReq ==
    ASSUME Basics, setup' = setup, NEW r \in Requests, EndRun(r) \/ CountFails(r)
    PROVE  ReqStep
<1>1. PICK p \in {"counting", "failed"} : Goto(r, p) /\ <<req[r].pc, p>> \in Moves
  BY DEF EndRun, CountFails, Moves
<1>2. req[r].pc \in {"running", "counting"} /\ job' = job BY DEF EndRun, CountFails
<1>3. job[r] \notin {"waiting", "active"} BY <1>2, RequestFits DEF Fits
<1>4. p \in Pcs BY DEF Pcs
<1> QED BY <1>1, <1>2, <1>3, <1>4, GotoStep DEF Awaiting

LEMMA SeeResultReq ==
    ASSUME Basics, setup' = setup, NEW r \in Requests, SeeResult(r)
    PROVE  ReqStep
<1> DEFINE p == IF job[r] = "completed" THEN "counting" ELSE "failed"
<1>1. /\ req[r].pc = "waiting" /\ Goto(r, p) /\ job' = job /\ p \in {"counting", "failed"}
      /\ job[r] \notin {"waiting", "active"}
  BY DEF SeeResult, runVars
<1> HIDE DEF p
<1>2. p \in Pcs /\ <<req[r].pc, p>> \in Moves BY <1>1 DEF Pcs, Moves
<1> QED BY <1>1, <1>2, GotoStep DEF Awaiting

LEMMA CloseReq ==
    ASSUME Basics, setup' = setup, NEW r \in Requests,
           CloseStream(r) \/ ReplyJson(r) \/ CloseHook(r)
    PROVE  ReqStep
<1>1. req[r].pc \in {"counting", "failed"} /\ job' = job
  BY DEF CloseStream, ReplyJson, CloseHook, runVars
<1>2. PICK p \in {"unsubscribing", "done"} :
         Goto(r, p) /\ (p = "unsubscribing" => Kind(r) = "stream" /\ Queued)
  BY DEF CloseStream, ReplyJson, CloseHook
<1>3. job[r] \notin {"waiting", "active"} BY <1>1, RequestFits DEF Fits
<1>4. p \in Pcs /\ <<req[r].pc, p>> \in Moves BY <1>1 DEF Pcs, Moves
<1> QED BY <1>1, <1>2, <1>3, <1>4, GotoStep DEF Awaiting

LEMMA BeginCallbackReq ==
    ASSUME Basics, setup' = setup, NEW r \in Requests, BeginCallback(r)
    PROVE  ReqStep
<1> DEFINE x == [req[r] EXCEPT !.pc = "calling", !.built = (req[r].pc = "counting")]
<1>1. /\ req[r].pc \in {"counting", "failed"} /\ Kind(r) = "hookCallback" /\ job' = job
      /\ req' = [req EXCEPT ![r] = x]
  BY DEF BeginCallback, runVars
<1>2. x \in Request /\ x.pc = "calling" /\ x.tries = req[r].tries /\ x.received = req[r].received
  BY RequestFits DEF Request, Pcs
<1> HIDE DEF x
<1>3. Fits(r, x, job[r]) BY <1>1, <1>2, RequestFits DEF Fits
<1>4. <<req[r].pc, x.pc>> \in Moves BY <1>1, <1>2 DEF Moves
<1> QED BY <1>1, <1>2, <1>3, <1>4, StepOne DEF Awaiting

LEMMA CallBackReq ==
    ASSUME Basics, setup' = setup, NEW r \in Requests, CallBack(r)
    PROVE  ReqStep
<1> DEFINE x == [req[r] EXCEPT !.pc = "done", !.received = req[r].received \cup {Verdict(r)}]
<1>1. req[r].pc = "calling" /\ job' = job /\ req' = [req EXCEPT ![r] = x]
  BY DEF CallBack, runVars
<1>2. Verdict(r) \in {"SUCCESS", "ERROR"} /\ Verdict(r) = VerdictOf(req[r])
  BY DEF Verdict, VerdictOf
<1>3. x \in Request /\ x.pc = "done" /\ x.built = req[r].built
      /\ x.received = req[r].received \cup {VerdictOf(req[r])}
  BY <1>2, RequestFits DEF Request, Pcs
<1> HIDE DEF x
<1>4. Fits(r, x, job[r]) BY <1>1, <1>3, RequestFits DEF Fits, VerdictOf
<1>5. <<req[r].pc, x.pc>> \in Moves BY <1>1, <1>3 DEF Moves
<1> QED BY <1>1, <1>3, <1>4, <1>5, StepOne DEF Awaiting

LEMMA CallFailsReq ==
    ASSUME Basics, setup' = setup, NEW r \in Requests, CallFails(r)
    PROVE  ReqStep
<1>1. PICK got \in SUBSET {Verdict(r)} :
         req' = [req EXCEPT ![r].tries = @ + 1, ![r].received = @ \cup got,
                            ![r].pc = IF LastTry(r) THEN "done" ELSE "calling"]
  BY DEF CallFails
<1> DEFINE p == IF LastTry(r) THEN "done" ELSE "calling"
           x == [req[r] EXCEPT !.tries = req[r].tries + 1, !.received = req[r].received \cup got,
                               !.pc = p]
<1>2. req[r].pc = "calling" /\ job' = job BY DEF CallFails, runVars
<1>3. req' = [req EXCEPT ![r] = x] BY <1>1
<1>4. Verdict(r) \in {"SUCCESS", "ERROR"} /\ Verdict(r) = VerdictOf(req[r])
  BY DEF Verdict, VerdictOf
<1>5. req[r].tries \in 0 .. 2 /\ (req[r].tries = 2 => p = "done") /\ p \in {"done", "calling"}
  BY <1>2, RequestFits, RequestElim DEF Fits, LastTry
<1> HIDE DEF p
<1>6. /\ x \in Request /\ x.pc = p /\ x.built = req[r].built /\ x.tries = req[r].tries + 1
      /\ x.received = req[r].received \cup got
  <2> DEFINE n == req[r].tries + 1 R == req[r].received \cup got
  <2>1. n \in 0 .. 3 BY <1>5
  <2>2. R \in SUBSET {"SUCCESS", "ERROR"} BY <1>4, RequestFits, RequestElim
  <2>3. p \in Pcs BY <1>5 DEF Pcs
  <2>4. req[r] \in Request BY RequestFits
  <2>5. x = [req[r] EXCEPT !.tries = n, !.received = R, !.pc = p] OBVIOUS
  <2> HIDE DEF n, R, x
  <2>6. /\ x \in Request /\ x.pc = p /\ x.built = req[r].built /\ x.tries = n
        /\ x.received = R
    BY <2>1, <2>2, <2>3, <2>4, <2>5 DEF Request
  <2> QED BY <2>6 DEF n, R
<1> HIDE DEF x
<1>7. Fits(r, x, job[r]) BY <1>2, <1>4, <1>5, <1>6, RequestFits DEF Fits, VerdictOf
<1>8. x.pc = req[r].pc \/ <<req[r].pc, x.pc>> \in Moves BY <1>2, <1>5, <1>6 DEF Moves
<1> QED BY <1>2, <1>3, <1>6, <1>7, <1>8, StepOne DEF Awaiting

\* The caller that waited for the first command goes on; nobody else moves.
LEMMA ResumeReq ==
    ASSUME Basics, setup' = setup, job' = job, NEW s \in Replicas, commands[s] # <<>>,
           NEW h, h = Head(commands[s]), NEW ok \in BOOLEAN, Resume(h, ok)
    PROVE  /\ ReqTyped' /\ RequestsFit' /\ Moving
           /\ \A q \in Requests \ {h.by} : req'[q] = req[q]
<1>0. h \in Command /\ 1 \in DOMAIN commands[s] /\ h = commands[s][1]
  BY TypeParts DEF Basics, RedisTyped
<1>1. CASE h.by = NoOne
  <2>1. req' = req BY <1>1 DEF Resume
  <2> QED BY <2>1, StandStill DEF ReqStep
<1>2. CASE h.by # NoOne
  <2> DEFINE r == h.by
  <2>1. r \in Requests /\ req[r].pc \in Awaiting /\ (req[r].pc = "unsubscribing" => h.op # "subscribe")
    BY <1>0, <1>2, AwaitedElim DEF AwaitingPcs
  <2>2. /\ Fits(r, req[r], job[r]) /\ req[r] \in Request BY <2>1, RequestFits
  <2>3. PICK x \in Request :
           /\ req' = [req EXCEPT ![r] = x] /\ <<req[r].pc, x.pc>> \in Moves
           /\ x.tries = req[r].tries /\ x.received = req[r].received /\ x.built = req[r].built
           /\ x.pc \in {"done", "checking", "failed"} \/ Kind(r) \in Hooks
           /\ x.pc \in {"done", "checking", "failed", "binding", "bound"}
    <3>1. CASE req[r].pc = "unsubscribing"
      <4> DEFINE x == [req[r] EXCEPT !.pc = "done"]
      <4>1. req' = [req EXCEPT ![r] = x] BY <3>1, <1>2 DEF Resume, Goto
      <4>2. /\ x \in Request /\ x.pc = "done" /\ x.tries = req[r].tries
            /\ x.received = req[r].received /\ x.built = req[r].built
        BY <2>2 DEF Request, Pcs
      <4> HIDE DEF x
      <4>3. <<req[r].pc, x.pc>> \in Moves BY <3>1, <4>2 DEF Moves
      <4> QED BY <4>1, <4>2, <4>3
    <3>2. CASE req[r].pc = "subscribing"
      <4> DEFINE p == IF ok THEN "checking" ELSE "failed" x == [req[r] EXCEPT !.pc = p]
      <4>1. req' = [req EXCEPT ![r] = x] BY <3>2, <1>2 DEF Resume, Goto
      <4>2. p \in {"checking", "failed"} OBVIOUS
      <4> HIDE DEF p
      <4>3. /\ x \in Request /\ x.pc = p /\ x.tries = req[r].tries
            /\ x.received = req[r].received /\ x.built = req[r].built
        BY <2>2, <4>2 DEF Request, Pcs
      <4> HIDE DEF x
      <4>4. <<req[r].pc, x.pc>> \in Moves BY <3>2, <4>2, <4>3 DEF Moves
      <4> QED BY <4>1, <4>2, <4>3, <4>4
    <3>3. CASE req[r].pc = "bindSubscribing"
      <4> DEFINE todo == IF ok THEN req[r].todo ELSE {}
                 p == AfterBind(todo)
                 x == [req[r] EXCEPT !.todo = todo, !.pc = p]
      <4>1. req' = [req EXCEPT ![r] = x] BY <3>3, <1>2 DEF Resume
      <4>2. p \in {"bound", "binding"} /\ todo \in SUBSET Listeners
        BY <2>2, RequestElim DEF AfterBind
      <4> HIDE DEF p, todo
      <4>3. /\ x \in Request /\ x.pc = p /\ x.tries = req[r].tries
            /\ x.received = req[r].received /\ x.built = req[r].built
        BY <2>2, <4>2 DEF Request, Pcs
      <4> HIDE DEF x
      <4>4. <<req[r].pc, x.pc>> \in Moves BY <3>3, <4>2, <4>3 DEF Moves
      <4>5. Kind(r) \in Hooks BY <3>3, <2>2 DEF Fits
      <4> QED BY <4>1, <4>2, <4>3, <4>4, <4>5
    <3> QED BY <2>1, <3>1, <3>2, <3>3 DEF Awaiting
  <2>4. Fits(r, x, job[r])
    BY <2>1, <2>2, <2>3 DEF Fits, VerdictOf, Awaiting
  <2> HIDE DEF r
  <2>5. ReqTyped' /\ req'[r] = x /\ \A q \in Requests \ {r} : req'[q] = req[q]
    BY <2>1, <2>3, MoveEffect, TypeParts DEF Basics
  <2>6. RequestsFit' BY <2>1, <2>4, <2>5, FitsOne DEF Basics
  <2>7. Moving BY <2>3, <2>5 DEF Moving
  <2> QED BY <2>5, <2>6, <2>7 DEF r
<1> QED BY <1>1, <1>2

LEMMA RedisAnswersParts ==
    ASSUME NEW s \in Replicas, RedisAnswers(s)
    PROVE  /\ commands[s] # <<>> /\ job' = job
           /\ commands' = [commands EXCEPT ![s] = Tail(commands[s])]
           /\ \E ok \in BOOLEAN : Resume(Head(commands[s]), ok)
BY DEF RedisAnswers, Answer, Refusal, runVars

LEMMA JobStep ==
    ASSUME Basics, setup' = setup, req' = req, \/ \E r \in Requests : TakeJob(r) \/ EndJob(r)
                                               \/ WorkerDies
    PROVE  ReqStep
<1>1. ReqTyped' /\ WaitersStay /\ Moving
  BY TypeParts DEF Basics, ReqTyped, WaitersStay, Moving
<1>2. \A q \in Requests : /\ job'[q] \in {"waiting", "active"} => job[q] \in {"waiting", "active"}
                          /\ job'[q] # "none" => job[q] # "none"
  BY TypeParts DEF Basics, RunTyped, TakeJob, EndJob, WorkerDies
<1>3. \A q \in Requests : Fits(q, req[q], job'[q])
  BY <1>2, RequestFits DEF Fits
<1>4. RequestsFit' BY <1>3 DEF RequestsFit, Fits, Kind, Queued
<1> QED BY <1>1, <1>4 DEF ReqStep

\* Only the answer of Redis moves a request that waits for a command.
LEMMA RequestsStep ==
    ASSUME Basics, Next
    PROVE  /\ ReqTyped' /\ RequestsFit' /\ Moving
           /\ WaitersStay \/ \E s \in Replicas : RedisAnswers(s)
<1>0. setup' = setup BY SetupStays
<1>1. CASE req' = req
  <2>1. CASE job' = job BY <1>0, <1>1, <2>1, StandStill DEF ReqStep
  <2>2. CASE job' # job
    <3>1. \/ \E r \in Requests : TakeJob(r) \/ EndJob(r) \/ Accept(r)
          \/ WorkerDies
      BY <2>2, RunChanges, RedisAnswersParts
         DEF runVars, Refuse, EndRun, CountFails, Publish, Deliver, Miss, AbortChat,
             AbortArrives
    <3>2. (\E r \in Requests : Accept(r)) => ReqStep BY <1>0, AcceptReq
    <3> QED BY <1>0, <1>1, <3>1, <3>2, JobStep DEF ReqStep
  <2> QED BY <2>1, <2>2
<1>2. CASE req' # req
  <2>1. ASSUME NEW r \in Requests, NEW l \in Listeners, BindHere(r, l) \/ BindThere(r, l)
        PROVE  ReqStep
    BY <1>0, <2>1, BindHereReq, BindThereReq
  <2>2. ASSUME NEW r \in Requests,
               BeginStream(r) \/ BeginJson(r) \/ BeginHook(r) \/ RejectBound(r) \/ OpenBound(r)
        PROVE  ReqStep
    BY <1>0, <2>2, BeginStreamReq, BeginJsonReq, BeginHookReq, BoundReq
  <2>3. ASSUME NEW r \in Requests,
               Refuse(r) \/ Accept(r) \/ Emit(r) \/ Publish(r) \/ EndRun(r) \/ SeeResult(r)
                  \/ CountFails(r)
        PROVE  ReqStep
    BY <1>0, <2>3, RefuseReq, AcceptReq, EmitReq, EndRunReq, SeeResultReq
  <2>4. ASSUME NEW r \in Requests,
               CloseStream(r) \/ ReplyJson(r) \/ CloseHook(r) \/ BeginCallback(r) \/ CallBack(r)
                  \/ CallFails(r)
        PROVE  ReqStep
    BY <1>0, <2>4, CloseReq, BeginCallbackReq, CallBackReq, CallFailsReq
  <2>5. ASSUME NEW s \in Replicas, RedisAnswers(s)
        PROVE  ReqTyped' /\ RequestsFit' /\ Moving
    BY <1>0, <2>5, RedisAnswersParts, ResumeReq
  <2>6. ASSUME NEW s \in Replicas, Miss(s) PROVE ReqStep BY <1>0, <2>6, MissReq
  <2> QED BY <1>2, <2>1, <2>2, <2>3, <2>4, <2>5, <2>6, ReqChanges DEF ReqStep
<1> QED BY <1>1, <1>2

----------------------------------------------------------------------------
(***************************************************************************)
(* The steps of a streamer                                                 *)
(***************************************************************************)
AStreamer == Streamer(Ids, Responses, Events)

EarlyPcs == {"idle", "binding", "bindSubscribing", "bound"}

EarlyStages == {"absent", "registered", "opening"}

\* Who may lose the client of an id: a panel that closes, a request of the chat
\* that moves on, and an abort of speech, which disturbs the chat.
LetGo(x) ==
    \/ x \in Listeners
    \/ \E q \in Requests : ChatOf(q) = x /\ req'[q].pc # req[q].pc
    \/ \A q \in Requests : InFlight(q) /\ ChatOf(q) = x => q \in disturbed'

\* From its state before the step to t.
Declining(s, t) ==
    \E ids \in SUBSET Ids : Declines(sse[s], t, broken, ids) /\ \A x \in ids : LetGo(x)

Connecting(s) ==
    \E x \in Ids, w \in Responses :
        /\ sse'[s] = AddClient(sse[s], x, w)
        /\ \/ /\ w \in Requests /\ x = ChatOf(w) /\ s = Home(w) /\ Streams(w)
              /\ req[w].pc \in EarlyPcs /\ req'[w].pc \notin EarlyPcs
           \/ /\ w \in Listeners /\ x = w /\ s = setup.seat[w]
              /\ panel[w] = "opening" /\ panel'[w] \notin EarlyStages

Observing(s) ==
    /\ sse'[s].clients = sse[s].clients /\ sse'[s].out = sse[s].out
    /\ sse'[s].ended = sse[s].ended
    /\ \A x \in Ids :
          /\ sse[s].observers[x] \subseteq sse'[s].observers[x]
          /\ \/ sse'[s].observers[x] = sse[s].observers[x]
             \/ \E q \in Requests : /\ ChatOf(q) = x /\ Home(q) = s
                                    /\ req'[q].pc \in {"binding", "bindSubscribing", "bound"}
             \/ \E l \in Listeners : <<x, l>> \in binds /\ setup.seat[l] = s

Answering(s) ==
    \E r \in Requests, u \in AStreamer :
        /\ sse'[s] = Answered(u, r) /\ Declining(s, u) /\ Home(r) = s
        /\ ~Streams(r) \/ (req[r].pc = "bound" /\ req'[r].pc = "rejected")

StreamerStep(s) ==
    Declining(s, sse'[s]) \/ Connecting(s) \/ Observing(s) \/ Answering(s)

StreamersStep == SseTyped' /\ \A s \in Replicas : StreamerStep(s)

LEMMA SseStill ==
    ASSUME NEW s, sse'[s] = sse[s]
    PROVE  StreamerStep(s)
BY DeclinesReflexive DEF StreamerStep, Declining

LEMMA SseOne ==
    ASSUME SseTyped, NEW s \in Replicas, NEW t \in AStreamer, sse' = [sse EXCEPT ![s] = t],
           sse'[s] = t => StreamerStep(s)
    PROVE  StreamersStep
<1>1. SseTyped' /\ sse'[s] = t /\ \A z \in Replicas \ {s} : sse'[z] = sse[z]
  BY DEF SseTyped, AStreamer
<1> QED BY <1>1, SseStill DEF StreamersStep

LEMMA SseSame ==
    ASSUME SseTyped, sse' = sse
    PROVE  StreamersStep
BY SseStill DEF StreamersStep, SseTyped

LEMMA IdsSayable ==
    ASSUME NEW x \in Ids
    PROVE  Sayable(Events, x)
BY DEF Sayable, Events

LEMMA AnsweredType ==
    ASSUME NEW u \in AStreamer, NEW r \in Requests, NEW t, t = Answered(u, r)
    PROVE  /\ t \in AStreamer /\ t.clients = u.clients /\ t.observers = u.observers
           /\ t.out = u.out /\ t.ended = u.ended \cup {r}
<1> DEFINE ended == u.ended \cup {r}
<1>1. ended \in SUBSET Responses BY DEF AStreamer, Streamer, Responses
<1>2. t = [u EXCEPT !.ended = ended] BY DEF Answered
<1> HIDE DEF ended
<1> QED BY <1>1, <1>2 DEF AStreamer, Streamer, ended

LEMMA SseElim ==
    ASSUME Basics, NEW r \in Requests
    PROVE  /\ Home(r) \in Replicas /\ sse[Home(r)] \in AStreamer /\ ChatOf(r) \in Chats
           /\ ChatOf(r) \in Ids /\ r \in Responses /\ SseTyped /\ ReqTyped
           /\ req[r] \in Request
BY TypeParts, SetupElim, RequestFits DEF Basics, SseTyped, AStreamer, Ids, Responses

LEMMA GotoPc ==
    ASSUME ReqTyped, NEW r \in Requests, NEW p, Goto(r, p)
    PROVE  req'[r].pc = p /\ \A q \in Requests \ {r} : req'[q] = req[q]
<1>1. req[r] \in Request BY DEF ReqTyped
<1>2. req' = [req EXCEPT ![r] = [req[r] EXCEPT !.pc = p]] BY DEF Goto
<1>3. req'[r] = [req[r] EXCEPT !.pc = p] BY <1>2 DEF ReqTyped
<1>4. req'[r].pc = p BY <1>1, <1>3 DEF Request
<1> QED BY <1>2, <1>4 DEF ReqTyped

\* A write to the chat of a request, or the end of its stream, or both in turn.
LEMMA Writing ==
    ASSUME NEW s \in Replicas, sse[s] \in AStreamer, NEW x \in Ids, NEW e \in Events,
           NEW t, t = SafeWrite(sse[s], x, e, broken)
    PROVE  t \in AStreamer /\ Declining(s, t)
<1>1. t \in AStreamer /\ Declines(sse[s], t, broken, {})
  BY SafeWriteDeclines DEF AStreamer
<1> QED BY <1>1 DEF Declining

LEMMA Removal ==
    ASSUME NEW u \in AStreamer, NEW x \in Ids, NEW t, t = RemoveClient(u, x, broken)
    PROVE  t \in AStreamer /\ Declines(u, t, broken, {x}) /\ Finishes(u, t, x, broken)
<1>1. Sayable(Events, x) BY IdsSayable
<1> QED BY <1>1, RemoveClientDeclines DEF AStreamer

LEMMA Removing ==
    ASSUME NEW s \in Replicas, sse[s] \in AStreamer, NEW x \in Ids, LetGo(x),
           NEW t, t = RemoveClient(sse[s], x, broken)
    PROVE  t \in AStreamer /\ Declining(s, t)
<1>1. t \in AStreamer /\ Declines(sse[s], t, broken, {x}) BY Removal
<1> QED BY <1>1 DEF Declining

LEMMA WritingRemoving ==
    ASSUME NEW s \in Replicas, sse[s] \in AStreamer, NEW x \in Ids, LetGo(x), NEW e \in Events,
           NEW u, u = SafeWrite(sse[s], x, e, broken), NEW t, t = RemoveClient(u, x, broken)
    PROVE  t \in AStreamer /\ Declining(s, t)
<1>1. u \in AStreamer /\ Declines(sse[s], u, broken, {})
  BY SafeWriteDeclines DEF AStreamer
<1>2. t \in AStreamer /\ Declines(u, t, broken, {x}) BY <1>1, Removal
<1>3. Declines(sse[s], t, broken, {x}) BY <1>1, <1>2, DeclinesTransitive DEF AStreamer
<1> QED BY <1>2, <1>3 DEF Declining

LEMMA EventsOf ==
    ASSUME NEW r \in Requests
    PROVE  <<"token", r>> \in Events /\ LastEvent(r) \in Events
BY DEF LastEvent, Events

LEMMA BeginStreamSse ==
    ASSUME Basics, NEW r \in Requests, BeginStream(r)
    PROVE  StreamersStep
<1> DEFINE s == Home(r) t == AddClient(sse[s], ChatOf(r), r)
<1>1. PICK p \in {"subscribing", "checking"} : Goto(r, p) BY DEF BeginStream
<1>2. req[r].pc = "idle" /\ Streams(r) /\ sse' = [sse EXCEPT ![s] = t]
  BY DEF BeginStream, Streams
<1>3. t \in AStreamer BY SseElim, AddClientEffect DEF AStreamer
<1>4. req'[r].pc = p BY <1>1, GotoPc, SseElim
<1>5. sse'[s] = t => Connecting(s) BY <1>1, <1>2, <1>4, SseElim DEF Connecting, EarlyPcs
<1> HIDE DEF t
<1> QED BY <1>2, <1>3, <1>5, SseOne, SseElim DEF StreamerStep

LEMMA BeginHookSse ==
    ASSUME Basics, NEW r \in Requests, BeginHook(r), sse' # sse
    PROVE  StreamersStep
<1> DEFINE s == Home(r) c == ChatOf(r)
           o == [sse[s].observers EXCEPT ![c] = sse[s].observers[c] \cup registry]
           t == [sse[s] EXCEPT !.observers = o]
<1>1. Goto(r, "bound") /\ sse' = [sse EXCEPT ![s] = t] BY DEF BeginHook
<1>2. req'[r].pc = "bound" BY <1>1, GotoPc, SseElim
<1>3. registry \subseteq Ids BY TypeParts DEF Basics, PanelTyped, Ids
<1>4. /\ o \in [Ids -> SUBSET Ids]
      /\ \A x \in Ids : sse[s].observers[x] \subseteq o[x] /\ (x # c => o[x] = sse[s].observers[x])
  BY <1>3, SseElim DEF AStreamer, Streamer
<1> HIDE DEF o
<1>5. /\ t \in AStreamer /\ t.observers = o /\ t.clients = sse[s].clients
      /\ t.out = sse[s].out /\ t.ended = sse[s].ended
  BY <1>4, SseElim DEF AStreamer, Streamer
<1> HIDE DEF t
<1>6. sse'[s] = t => Observing(s) BY <1>2, <1>4, <1>5 DEF Observing
<1> HIDE DEF s
<1>7. s \in Replicas BY SseElim DEF s
<1> QED BY <1>1, <1>5, <1>6, <1>7, SseOne, SseElim DEF StreamerStep

LEMMA BindHereSse ==
    ASSUME Basics, setup' = setup, NEW r \in Requests, NEW l \in Listeners, BindHere(r, l)
    PROVE  StreamersStep
<1> DEFINE s == Home(r) c == ChatOf(r) t == AddObserver(sse[s], c, l)
           p == IF c \in subscribed[s] THEN AfterBind(req[r].todo \ {l}) ELSE "bindSubscribing"
           todo == req[r].todo \ {l}
           x == [req[r] EXCEPT !.todo = todo, !.pc = p]
<1>1. sse' = [sse EXCEPT ![s] = t] /\ req' = [req EXCEPT ![r] = x] BY DEF BindHere
<1>2. p \in {"binding", "bindSubscribing", "bound"} BY DEF AfterBind
<1> HIDE DEF p
<1>3. req'[r].pc = p BY <1>1, SseElim DEF ReqTyped, Request
<1>4. /\ t \in AStreamer /\ t.observers = [sse[s].observers EXCEPT ![c] = sse[s].observers[c] \cup {l}]
      /\ t.clients = sse[s].clients /\ t.out = sse[s].out /\ t.ended = sse[s].ended
  <2>1. l \in Ids BY DEF Ids
  <2> QED BY <2>1, SseElim, AddObserverEffect DEF AStreamer
<1> HIDE DEF t
<1>5. \A y \in Ids : /\ sse[s].observers[y] \subseteq t.observers[y]
                     /\ y # c => t.observers[y] = sse[s].observers[y]
  BY <1>4, SseElim DEF AStreamer, Streamer
<1>6. sse'[s] = t => Observing(s) BY <1>2, <1>3, <1>4, <1>5 DEF Observing
<1> HIDE DEF s
<1>7. s \in Replicas BY SseElim DEF s
<1> QED BY <1>1, <1>4, <1>6, <1>7, SseOne, SseElim DEF StreamerStep

LEMMA BindArrivesSse ==
    ASSUME Basics, NEW c \in Chats, NEW l \in Listeners, BindArrives(c, l), sse' # sse
    PROVE  StreamersStep
<1> DEFINE s == setup.seat[l] t == AddObserver(sse[s], c, l)
<1>0. s \in Replicas /\ c \in Ids /\ l \in Ids /\ SseTyped /\ sse[s] \in AStreamer
  BY TypeParts, SetupElim DEF Basics, SseTyped, AStreamer, Ids
<1>1. sse' = [sse EXCEPT ![s] = t] /\ <<c, l>> \in binds BY DEF BindArrives
<1>2. /\ t \in AStreamer /\ t.observers = [sse[s].observers EXCEPT ![c] = sse[s].observers[c] \cup {l}]
      /\ t.clients = sse[s].clients /\ t.out = sse[s].out /\ t.ended = sse[s].ended
  BY <1>0, AddObserverEffect DEF AStreamer
<1> HIDE DEF t
<1>3. \A y \in Ids : /\ sse[s].observers[y] \subseteq t.observers[y]
                     /\ y # c => t.observers[y] = sse[s].observers[y]
  BY <1>0, <1>2 DEF AStreamer, Streamer
<1>4. sse'[s] = t => Observing(s) BY <1>1, <1>2, <1>3 DEF Observing
<1> HIDE DEF s
<1> QED BY <1>0, <1>1, <1>2, <1>4, SseOne DEF StreamerStep

LEMMA BoundSse ==
    ASSUME Basics, NEW r \in Requests, RejectBound(r) \/ OpenBound(r)
    PROVE  StreamersStep
<1> DEFINE s == Home(r)
<1>1. PICK p \in {"rejected", "checking"} :
         Goto(r, p) /\ (p = "rejected" => RejectBound(r)) /\ (p = "checking" => OpenBound(r))
  BY DEF RejectBound, OpenBound
<1>2. req[r].pc = "bound" /\ req'[r].pc = p /\ Kind(r) \in Hooks
  BY <1>1, GotoPc, SseElim, RequestFits DEF RejectBound, OpenBound, Fits
<1>3. CASE \/ sse' = [sse EXCEPT ![s] = Answered(sse[s], r)] /\ (p = "rejected" \/ ~Streams(r))
  <2> DEFINE t == Answered(sse[s], r)
  <2>1. t \in AStreamer BY SseElim, AnsweredType
  <2>2. Declining(s, sse[s]) BY DeclinesReflexive DEF Declining
  <2>3. sse'[s] = t => Answering(s) BY <1>2, <1>3, <2>2, SseElim DEF Answering
  <2> HIDE DEF t, s
  <2>4. sse' = [sse EXCEPT ![s] = t] /\ s \in Replicas BY <1>3, SseElim DEF t, s
  <2> QED BY <2>1, <2>3, <2>4, SseOne, SseElim DEF StreamerStep
<1>4. CASE Kind(r) = "hookStream" /\ p = "checking"
  <2> DEFINE t == AddClient(sse[s], ChatOf(r), r)
  <2>1. sse' = [sse EXCEPT ![s] = t] BY <1>1, <1>4 DEF OpenBound
  <2>2. t \in AStreamer BY SseElim, AddClientEffect DEF AStreamer
  <2>3. Streams(r) BY <1>4 DEF Streams
  <2>4. sse'[s] = t => Connecting(s) BY <1>2, <1>4, <2>3, SseElim DEF Connecting, EarlyPcs
  <2> HIDE DEF t
  <2> QED BY <2>1, <2>2, <2>4, SseOne, SseElim DEF StreamerStep
<1>5. CASE Kind(r) = "hookSync" /\ p = "checking"
  <2>1. sse' = [sse EXCEPT ![s] = sse[s]] BY <1>1, <1>5 DEF OpenBound
  <2>2. sse' = sse BY <2>1, SseElim DEF SseTyped
  <2> QED BY <2>2, SseSame, SseElim
<1> QED BY <1>1, <1>2, <1>3, <1>4, <1>5 DEF RejectBound, OpenBound, Streams, Hooks

LEMMA EmitSse ==
    ASSUME Basics, NEW r \in Requests, Emit(r)
    PROVE  StreamersStep
<1> DEFINE s == Home(r) e == <<"token", r>> t == SafeWrite(sse[s], ChatOf(r), e, broken)
<1>1. sse' = [sse EXCEPT ![s] = t] BY DEF Emit
<1>2. e \in Events BY EventsOf
<1> HIDE DEF e
<1>3. t \in AStreamer /\ Declining(s, t) BY <1>2, Writing, SseElim
<1> HIDE DEF t
<1> QED BY <1>1, <1>3, SseOne, SseElim DEF StreamerStep

LEMMA HeardSse ==
    ASSUME Basics, wire # <<>>, NEW S, Heard(Head(wire), S)
    PROVE  StreamersStep
<1> DEFINE r == Head(wire) c == ChatOf(r) e == <<"token", r>>
<1>1. r \in Requests BY TypeParts DEF Basics, RunTyped
<1>2. c \in Ids /\ e \in Events /\ SseTyped BY <1>1, SseElim, EventsOf
<1>3. sse' = [s \in Replicas |-> IF s \in S /\ handlers[s][c] > 0
                                 THEN SafeWrite(sse[s], c, e, broken) ELSE sse[s]]
  BY DEF Heard
<1> HIDE DEF r, c, e
<1>4. ASSUME NEW s \in Replicas
      PROVE  sse'[s] \in AStreamer /\ StreamerStep(s)
  <2>1. sse[s] \in AStreamer BY <1>2 DEF SseTyped, AStreamer
  <2>2. CASE sse'[s] = sse[s] BY <2>1, <2>2, SseStill
  <2>3. CASE sse'[s] = SafeWrite(sse[s], c, e, broken)
    BY <1>2, <2>1, <2>3, Writing DEF StreamerStep
  <2> QED BY <1>3, <2>2, <2>3
<1>5. SseTyped' BY <1>3, <1>4 DEF SseTyped, AStreamer
<1> QED BY <1>4, <1>5 DEF StreamersStep

LEMMA DeliverSse ==
    ASSUME Basics, Deliver \/ \E s \in Replicas : Miss(s)
    PROVE  StreamersStep
BY HeardSse DEF Deliver, Miss

LEMMA MovesOn ==
    ASSUME NEW r \in Requests, req'[r].pc # req[r].pc
    PROVE  LetGo(ChatOf(r))
BY DEF LetGo

LEMMA CloseStreamSse ==
    ASSUME Basics, NEW r \in Requests, CloseStream(r)
    PROVE  StreamersStep
<1> DEFINE s == Home(r) c == ChatOf(r) u == WithLastEvent(r) t == RemoveClient(u, c, broken)
<1>1. PICK p \in {"unsubscribing", "done"} :
         /\ Goto(r, p)
         /\ \/ sse' = [sse EXCEPT ![s] = u]
            \/ sse' = [sse EXCEPT ![s] = t]
  BY DEF CloseStream
<1>2. req'[r].pc # req[r].pc BY <1>1, GotoPc, SseElim DEF CloseStream
<1>3. u = SafeWrite(sse[s], c, LastEvent(r), broken) BY DEF WithLastEvent
<1> HIDE DEF u
<1>4. u \in AStreamer /\ Declining(s, u) BY <1>3, Writing, SseElim, EventsOf
<1>5. t \in AStreamer /\ Declining(s, t)
  BY <1>2, <1>3, WritingRemoving, SseElim, EventsOf, MovesOn
<1> HIDE DEF t
<1>6. CASE sse' = [sse EXCEPT ![s] = u]
  BY <1>4, <1>6, SseOne, SseElim DEF StreamerStep
<1>7. CASE sse' = [sse EXCEPT ![s] = t]
  BY <1>5, <1>7, SseOne, SseElim DEF StreamerStep
<1> QED BY <1>1, <1>6, <1>7

LEMMA ReplyJsonSse ==
    ASSUME Basics, NEW r \in Requests, ReplyJson(r)
    PROVE  StreamersStep
<1> DEFINE s == Home(r) t == Answered(sse[s], r)
<1>1. \/ sse' = [sse EXCEPT ![s] = t]
      \/ sse' = [sse EXCEPT ![s] = sse[s]]
  BY DEF ReplyJson
<1>2. ~Streams(r) BY DEF ReplyJson, Streams
<1>3. t \in AStreamer BY SseElim, AnsweredType
<1>4. Declining(s, sse[s]) BY DeclinesReflexive DEF Declining
<1>5. sse'[s] = t => Answering(s) BY <1>2, <1>4, SseElim DEF Answering
<1>6. sse' = [sse EXCEPT ![s] = sse[s]] => sse' = sse BY SseElim DEF SseTyped
<1> HIDE DEF t, s
<1>7. s \in Replicas BY SseElim DEF s
<1> QED BY <1>1, <1>3, <1>5, <1>6, <1>7, SseOne, SseSame, SseElim DEF StreamerStep

LEMMA CloseHookSse ==
    ASSUME Basics, NEW r \in Requests, CloseHook(r)
    PROVE  StreamersStep
<1> DEFINE s == Home(r) c == ChatOf(r) u == WithLastEvent(r) t == RemoveClient(u, c, broken)
           v == RemoveClient(sse[s], c, broken) w == Answered(v, r)
<1>1. /\ Goto(r, "done")
      /\ \/ sse' = [sse EXCEPT ![s] = t]
         \/ sse' = [sse EXCEPT ![s] = w] /\ ~Streams(r)
         \/ sse' = [sse EXCEPT ![s] = v]
  BY DEF CloseHook, Streams
<1>2. req'[r].pc # req[r].pc BY <1>1, GotoPc, SseElim DEF CloseHook
<1>3. u = SafeWrite(sse[s], c, LastEvent(r), broken) BY DEF WithLastEvent
<1> HIDE DEF u
<1>4. t \in AStreamer /\ Declining(s, t)
  BY <1>2, <1>3, WritingRemoving, SseElim, EventsOf, MovesOn
<1>5. v \in AStreamer /\ Declining(s, v) BY <1>2, Removing, SseElim, MovesOn
<1> HIDE DEF t, v
<1>6. w \in AStreamer BY <1>5, AnsweredType
<1>7. sse'[s] = w /\ ~Streams(r) => Answering(s) BY <1>5 DEF Answering
<1> HIDE DEF w, s
<1>8. s \in Replicas BY SseElim DEF s
<1>9. CASE sse' = [sse EXCEPT ![s] = t]
  BY <1>4, <1>8, <1>9, SseOne, SseElim DEF StreamerStep
<1>10. CASE sse' = [sse EXCEPT ![s] = w] /\ ~Streams(r)
  BY <1>6, <1>7, <1>8, <1>10, SseOne, SseElim DEF StreamerStep
<1>11. CASE sse' = [sse EXCEPT ![s] = v]
  BY <1>5, <1>8, <1>11, SseOne, SseElim DEF StreamerStep
<1> QED BY <1>1, <1>9, <1>10, <1>11

LEMMA LeaveSse ==
    ASSUME Basics, NEW r \in Requests, Leave(r), req'[r].pc # req[r].pc
    PROVE  StreamersStep
<1> DEFINE s == Home(r) t == RemoveClient(sse[s], ChatOf(r), broken)
<1>1. sse' = [sse EXCEPT ![s] = t] BY DEF Leave
<1>2. t \in AStreamer /\ Declining(s, t) BY Removing, SseElim, MovesOn
<1> HIDE DEF t
<1> QED BY <1>1, <1>2, SseOne, SseElim DEF StreamerStep

LEMMA CallSse ==
    ASSUME Basics, NEW r \in Requests, CallBack(r) \/ CallFails(r), sse' # sse
    PROVE  StreamersStep
<1>1. Leave(r) /\ (CallFails(r) => LastTry(r)) /\ req[r].pc = "calling"
  BY DEF CallBack, CallFails
<1>2. \E R : req' = [req EXCEPT ![r] = R] /\ R.pc = "done"
  <2>1. CASE CallBack(r)
    <3> DEFINE R == [req[r] EXCEPT !.pc = "done", !.received = req[r].received \cup {Verdict(r)}]
    <3>1. req' = [req EXCEPT ![r] = R] BY <2>1 DEF CallBack
    <3>2. R.pc = "done" BY SseElim DEF Request
    <3> QED BY <3>1, <3>2
  <2>2. CASE CallFails(r)
    <3>1. PICK got \in SUBSET {Verdict(r)} :
             req' = [req EXCEPT ![r].tries = @ + 1, ![r].received = @ \cup got,
                                ![r].pc = IF LastTry(r) THEN "done" ELSE "calling"]
      BY <2>2 DEF CallFails
    <3> DEFINE R == [req[r] EXCEPT !.tries = req[r].tries + 1,
                                   !.received = req[r].received \cup got,
                                   !.pc = IF LastTry(r) THEN "done" ELSE "calling"]
    <3>2. req' = [req EXCEPT ![r] = R] BY <3>1
    <3>3. R.pc = "done" BY <1>1, <2>2, SseElim DEF Request
    <3> QED BY <3>2, <3>3
  <2> QED BY <2>1, <2>2
<1>3. req'[r].pc = "done" BY <1>2, SseElim DEF ReqTyped
<1> QED BY <1>1, <1>3, LeaveSse

LEMMA RedisSse ==
    ASSUME Basics, NEW s \in Replicas, RedisAnswers(s), sse' # sse
    PROVE  StreamersStep
<1> DEFINE h == Head(commands[s])
<1>1. PICK ok \in BOOLEAN : Resume(h, ok) BY RedisAnswersParts
<1>2. commands[s] \in Seq(Command) /\ commands[s] # <<>>
  BY TypeParts, RedisAnswersParts DEF Basics, RedisTyped
<1>3. h \in Command BY <1>2
<1> HIDE DEF h
<1> DEFINE r == h.by
<1>4. /\ r # NoOne /\ req[r].pc = "unsubscribing" /\ Goto(r, "done") /\ Leave(r)
  BY <1>1 DEF Resume
<1>5. r \in Requests BY <1>3, <1>4 DEF Command
<1> HIDE DEF r
<1>6. req'[r].pc # req[r].pc BY <1>4, <1>5, GotoPc, SseElim
<1> QED BY <1>4, <1>5, <1>6, LeaveSse

LEMMA BeatsSse ==
    ASSUME Basics, NEW s \in Replicas, StreamerBeats(s)
    PROVE  StreamersStep
<1> DEFINE t == Heartbeat(sse[s], broken)
<1>1. sse' = [sse EXCEPT ![s] = t] BY DEF StreamerBeats
<1>2. SseTyped /\ sse[s] \in AStreamer BY TypeParts DEF Basics, SseTyped, AStreamer
<1>3. t \in AStreamer /\ Declines(sse[s], t, broken, {})
  BY <1>2, HeartbeatDeclines DEF AStreamer
<1>4. Declining(s, t) BY <1>3 DEF Declining
<1> HIDE DEF t
<1> QED BY <1>1, <1>2, <1>3, <1>4, SseOne DEF StreamerStep

LEMMA SpeechSse ==
    ASSUME Basics, NEW s \in Replicas, NEW c \in Chats, AbortSpeech(s, c)
    PROVE  StreamersStep
<1> DEFINE t == SpeechAborted(sse[s], c, broken)
<1>1. sse' = [sse EXCEPT ![s] = t] BY DEF AbortSpeech
<1>2. SseTyped /\ sse[s] \in AStreamer BY TypeParts DEF Basics, SseTyped, AStreamer
<1>3. c \in Ids /\ LetGo(c) BY DEF AbortSpeech, LetGo, Ids
<1>4. t \in AStreamer /\ Declines(sse[s], t, broken, {c})
  <2>1. Sayable(Events, c) BY <1>3, IdsSayable
  <2> QED BY <1>2, <1>3, <2>1, SpeechAbortedDeclines DEF AStreamer
<1>5. Declining(s, t) BY <1>3, <1>4 DEF Declining
<1> HIDE DEF t
<1> QED BY <1>1, <1>2, <1>4, <1>5, SseOne DEF StreamerStep

LEMMA AttachSse ==
    ASSUME Basics, NEW l \in Listeners, AttachPanel(l)
    PROVE  StreamersStep
<1> DEFINE s == setup.seat[l] t == AddClient(sse[s], l, l)
<1>1. /\ sse' = [sse EXCEPT ![s] = t] /\ panel[l] = "opening"
      /\ \E stage \in {"beating", "deaf", "listening"} : panel' = [panel EXCEPT ![l] = stage]
  BY DEF AttachPanel, Move, Installed
<1>2. /\ s \in Replicas /\ SseTyped /\ sse[s] \in AStreamer /\ l \in Ids /\ l \in Responses
      /\ panel \in [Listeners -> Stages]
  BY TypeParts, SetupElim DEF Basics, SseTyped, AStreamer, Ids, Responses, PanelTyped
<1>3. t \in AStreamer BY <1>2, AddClientEffect DEF AStreamer
<1>4. panel'[l] \in {"beating", "deaf", "listening"} BY <1>1, <1>2
<1>5. sse'[s] = t => Connecting(s) BY <1>1, <1>2, <1>4 DEF Connecting, EarlyStages
<1> HIDE DEF t, s
<1> QED BY <1>1, <1>2, <1>3, <1>5, SseOne DEF StreamerStep

LEMMA HangupSse ==
    ASSUME Basics, NEW l \in Listeners, Hangup(l)
    PROVE  StreamersStep
<1> DEFINE s == setup.seat[l] t == RemoveClient(sse[s], l, broken)
<1>1. sse' = [sse EXCEPT ![s] = t] BY DEF Hangup
<1>2. s \in Replicas /\ SseTyped /\ sse[s] \in AStreamer /\ l \in Ids
  BY TypeParts, SetupElim DEF Basics, SseTyped, AStreamer, Ids
<1>3. LetGo(l) BY DEF LetGo
<1>4. t \in AStreamer /\ Declining(s, t) BY <1>2, <1>3, Removing
<1> HIDE DEF t, s
<1> QED BY <1>1, <1>2, <1>4, SseOne DEF StreamerStep

LEMMA SseStep ==
    ASSUME Basics, Next
    PROVE  StreamersStep
<1>0. setup' = setup /\ SseTyped BY SetupStays, TypeParts DEF Basics
<1>1. CASE sse' = sse BY <1>0, <1>1, SseSame
<1>2. CASE sse' # sse
  <2>1. ASSUME NEW r \in Requests, NEW l \in Listeners, BindHere(r, l) PROVE StreamersStep
    BY <1>0, <2>1, BindHereSse
  <2>2. ASSUME NEW r \in Requests,
               \/ BeginStream(r) \/ BeginHook(r) \/ RejectBound(r) \/ OpenBound(r) \/ Emit(r)
               \/ CloseStream(r) \/ ReplyJson(r) \/ CloseHook(r) \/ CallBack(r) \/ CallFails(r)
        PROVE  StreamersStep
    BY <1>2, <2>2, BeginStreamSse, BeginHookSse, BoundSse, EmitSse, CloseStreamSse, ReplyJsonSse,
       CloseHookSse, CallSse
  <2>3. CASE Deliver \/ \E s \in Replicas : Miss(s) BY <2>3, DeliverSse
  <2>4. ASSUME NEW c \in Chats, NEW l \in Listeners, BindArrives(c, l) PROVE StreamersStep
    BY <1>2, <2>4, BindArrivesSse
  <2>5. ASSUME NEW s \in Replicas, \/ RedisAnswers(s) \/ StreamerBeats(s)
                                   \/ \E c \in Chats : AbortSpeech(s, c)
        PROVE  StreamersStep
    BY <1>2, <2>5, RedisSse, BeatsSse, SpeechSse
  <2>6. ASSUME NEW l \in Listeners, AttachPanel(l) \/ Hangup(l) PROVE StreamersStep
    BY <2>6, AttachSse, HangupSse
  <2> QED BY <1>2, <2>1, <2>2, <2>3, <2>4, <2>5, <2>6, SseChanges
<1> QED BY <1>1, <1>2

----------------------------------------------------------------------------
(***************************************************************************)
(* The commands to Redis                                                   *)
(***************************************************************************)
\* What a step of somebody but Redis does to the replicas' Redis clients.
Ordering ==
    /\ subscribed' = subscribed /\ handlers' = handlers
    /\ RedisTyped' /\ CommandsAwaited'

LEMMA RedisElim ==
    ASSUME Basics, NEW s \in Replicas
    PROVE  /\ commands[s] \in Seq(Command) /\ Len(commands[s]) \in 0 .. MaxCommands
           /\ subscribed[s] \subseteq Chats /\ handlers[s] \in [Chats -> Nat]
           /\ commands \in [Replicas -> Seq(Command)] /\ MaxCommands \in Nat
           /\ subscribed \in [Replicas -> SUBSET Chats]
           /\ handlers \in [Replicas -> [Chats -> Nat]]
<1>1. RedisTyped /\ MaxCommands \in Nat
  BY TypeParts, StreamsAssumption DEF Basics, StreamsAssumption
<1>2. commands[s] \in Seq(Command) /\ Len(commands[s]) <= MaxCommands
  BY <1>1 DEF RedisTyped
<1>3. Len(commands[s]) \in Nat BY <1>2
<1> QED BY <1>1, <1>2, <1>3 DEF RedisTyped

LEMMA Sending ==
    ASSUME Basics, setup' = setup, WaitersStay, NEW s \in Replicas, NEW h \in Command,
           Send(s, h.op, h.chat, h.by),
           h.by # NoOne => /\ Home(h.by) = s /\ ChatOf(h.by) = h.chat
                           /\ req[h.by].pc \notin Awaiting
                           /\ req'[h.by].pc \in AwaitingPcs(h.op)
    PROVE  Ordering
<1>1. h = [op |-> h.op, chat |-> h.chat, by |-> h.by] BY DEF Command
<1>2. /\ commands' = [commands EXCEPT ![s] = Append(commands[s], h)]
      /\ Len(commands[s]) < MaxCommands /\ subscribed' = subscribed /\ handlers' = handlers
  BY <1>1 DEF Send
<1>3. CommandsAwaited' BY <1>2, AwaitedSent
<1>4. /\ Append(commands[s], h) \in Seq(Command)
      /\ Len(Append(commands[s], h)) = Len(commands[s]) + 1
  BY RedisElim
<1>5. Len(Append(commands[s], h)) <= MaxCommands BY <1>2, <1>4, RedisElim
<1>6. RedisTyped' BY <1>2, <1>4, <1>5, TypeParts DEF Basics, RedisTyped
<1> QED BY <1>2, <1>3, <1>6 DEF Ordering

LEMMA NoOrder ==
    ASSUME Basics, setup' = setup, WaitersStay, redisVars' = redisVars
    PROVE  Ordering
<1>1. subscribed' = subscribed /\ handlers' = handlers /\ commands' = commands
  BY DEF redisVars
<1>2. RedisTyped' BY PartsKept DEF Basics, redisVars
<1> QED BY <1>1, <1>2, AwaitedKept DEF Ordering

LEMMA Subscribing ==
    ASSUME Basics, setup' = setup, WaitersStay, NEW s \in Replicas, NEW c \in Chats,
           NEW by \in Requests \cup {NoOne}, Subscribe(s, c, by),
           by # NoOne => /\ Home(by) = s /\ ChatOf(by) = c
                         /\ req[by].pc \notin Awaiting
                         /\ c \notin subscribed[s] => req'[by].pc \in AwaitingPcs("subscribe")
    PROVE  Ordering
<1>1. CASE c \in subscribed[s] BY <1>1, NoOrder DEF Subscribe, redisVars
<1>2. CASE c \notin subscribed[s]
  <2> DEFINE h == [op |-> "subscribe", chat |-> c, by |-> by]
  <2>1. h \in Command /\ h.op = "subscribe" /\ h.chat = c /\ h.by = by BY DEF Command
  <2> HIDE DEF h
  <2>2. Send(s, h.op, h.chat, h.by) BY <1>2, <2>1 DEF Subscribe
  <2> QED BY <1>2, <2>1, <2>2, Sending
<1> QED BY <1>1, <1>2

LEMMA BeginStreamOrders ==
    ASSUME Basics, setup' = setup, WaitersStay, NEW r \in Requests, BeginStream(r)
    PROVE  Ordering
<1>1. CASE ~Queued BY <1>1, NoOrder DEF BeginStream, redisVars
<1>2. CASE Queued
  <2>1. Subscribe(Home(r), ChatOf(r), r) /\ req[r].pc \notin Awaiting
    BY <1>2 DEF BeginStream, Awaiting
  <2>2. ChatOf(r) \notin subscribed[Home(r)] => Goto(r, "subscribing")
    BY <1>2 DEF BeginStream
  <2>3. ChatOf(r) \notin subscribed[Home(r)] => req'[r].pc \in AwaitingPcs("subscribe")
    BY <2>2, GotoPc, SseElim DEF AwaitingPcs
  <2> QED BY <2>1, <2>3, Subscribing, SseElim
<1> QED BY <1>1, <1>2

LEMMA BindHereOrders ==
    ASSUME Basics, setup' = setup, WaitersStay, NEW r \in Requests, NEW l \in Listeners,
           BindHere(r, l)
    PROVE  Ordering
<1> DEFINE todo == req[r].todo \ {l} x == [req[r] EXCEPT !.todo = todo, !.pc = "bindSubscribing"]
<1>1. /\ Subscribe(Home(r), ChatOf(r), r) /\ req[r].pc \notin Awaiting
      /\ ChatOf(r) \notin subscribed[Home(r)] => req' = [req EXCEPT ![r] = x]
  BY DEF BindHere, Awaiting
<1> HIDE DEF todo
<1>2. x.pc = "bindSubscribing" BY SseElim DEF Request
<1> HIDE DEF x
<1>3. ChatOf(r) \notin subscribed[Home(r)] => req'[r].pc \in AwaitingPcs("subscribe")
  BY <1>1, <1>2, SseElim DEF AwaitingPcs, ReqTyped
<1> QED BY <1>1, <1>3, Subscribing, SseElim

LEMMA BindArrivesOrders ==
    ASSUME Basics, setup' = setup, WaitersStay, NEW c \in Chats, NEW l \in Listeners,
           BindArrives(c, l)
    PROVE  Ordering
<1>1. setup.seat[l] \in Replicas BY SetupElim, TypeParts DEF Basics
<1>2. Subscribe(setup.seat[l], c, NoOne) \/ redisVars' = redisVars BY DEF BindArrives, redisVars
<1> QED BY <1>1, <1>2, Subscribing, NoOrder

LEMMA CloseStreamOrders ==
    ASSUME Basics, setup' = setup, WaitersStay, NEW r \in Requests, CloseStream(r)
    PROVE  Ordering
<1> DEFINE s == Home(r) c == ChatOf(r) h == [op |-> "unsubscribe", chat |-> c, by |-> r]
<1>1. \/ Send(s, "unsubscribe", c, r) /\ Goto(r, "unsubscribing")
      \/ redisVars' = redisVars
  BY DEF CloseStream, redisVars
<1>2. h \in Command /\ h.op = "unsubscribe" /\ h.chat = c /\ h.by = r BY SseElim DEF Command
<1> HIDE DEF h
<1>3. Goto(r, "unsubscribing") => req'[r].pc \in AwaitingPcs(h.op)
  BY <1>2, GotoPc, SseElim DEF AwaitingPcs
<1>4. req[r].pc \notin Awaiting BY DEF CloseStream, Awaiting
<1>5. CASE Send(s, "unsubscribe", c, r) /\ Goto(r, "unsubscribing")
  BY <1>2, <1>3, <1>4, <1>5, Sending, SseElim
<1> QED BY <1>1, <1>5, NoOrder

LEMMA CleanUpOrders ==
    ASSUME Basics, setup' = setup, NEW s \in Replicas, CleanUp(s)
    PROVE  Ordering
<1> DEFINE S == Stale(s)
<1>1. PICK order \in Orders(S) :
         commands' = [commands EXCEPT ![s] = commands[s] \o
            [i \in DOMAIN order |-> [op |-> "unsubscribe", chat |-> order[i], by |-> NoOne]]]
  BY DEF CleanUp
<1>2. /\ Len(commands[s]) + Cardinality(S) <= MaxCommands
      /\ req' = req /\ subscribed' = subscribed /\ handlers' = handlers
  BY DEF CleanUp
<1>3. S \subseteq Chats BY RedisElim DEF Stale
<1>4. Cardinality(S) \in Nat
  BY <1>3, StreamsAssumption, FS_Subset, FS_CardinalityType DEF StreamsAssumption
<1>5. order \in [1 .. Cardinality(S) -> S] BY <1>1 DEF Orders
<1> DEFINE n == Cardinality(S)
           new == [i \in 1 .. n |-> [op |-> "unsubscribe", chat |-> order[i], by |-> NoOne]]
<1>6. commands' = [commands EXCEPT ![s] = commands[s] \o new] BY <1>1, <1>5
<1>7. \A i \in 1 .. n : new[i] \in Command /\ new[i].by = NoOne BY <1>3, <1>5 DEF Command
<1>8. /\ n \in Nat /\ Len(commands[s]) + n <= MaxCommands BY <1>2, <1>4
<1> HIDE DEF n
<1>9. new \in Seq(Command) /\ Len(new) = n BY <1>7, <1>8
<1> HIDE DEF new
<1>10. CommandsAwaited' BY <1>2, <1>6, <1>7, <1>9, AwaitedCleaned
<1>11. /\ commands[s] \o new \in Seq(Command)
       /\ Len(commands[s] \o new) = Len(commands[s]) + Len(new)
  BY <1>9, RedisElim, ConcatProperties
<1>12. RedisTyped'
  BY <1>2, <1>6, <1>8, <1>9, <1>11, TypeParts DEF Basics, RedisTyped
<1> QED BY <1>2, <1>10, <1>12 DEF Ordering

\* The answer of Redis to the first command of replica s.
LEMMA AnswerEffect ==
    ASSUME Basics, NEW s \in Replicas, RedisAnswers(s), NEW h, h = Head(commands[s])
    PROVE  /\ h \in Command /\ RedisTyped'
           /\ \A z \in Replicas \ {s} :
                 subscribed'[z] = subscribed[z] /\ handlers'[z] = handlers[z]
           /\ \A c \in Chats \ {h.chat} :
                 /\ handlers'[s][c] = handlers[s][c]
                 /\ c \in subscribed'[s] <=> c \in subscribed[s]
           /\ h.op = "subscribe" =>
                 /\ forgotten' = forgotten
                 /\ \/ h.chat \in subscribed'[s] /\ handlers'[s][h.chat] = handlers[s][h.chat] + 1
                    \/ subscribed'[s] = subscribed[s] /\ handlers'[s] = handlers[s]
           /\ h.op # "subscribe" =>
                 /\ h.chat \notin subscribed'[s]
                 /\ \/ handlers'[s][h.chat] = 0 /\ forgotten' = forgotten
                    \/ forgotten' = forgotten \cup {<<s, h.chat>>}
<1>0. commands[s] # <<>> /\ commands' = [commands EXCEPT ![s] = Tail(commands[s])]
  BY RedisAnswersParts
<1>1. /\ h \in Command /\ Tail(commands[s]) \in Seq(Command)
      /\ Len(Tail(commands[s])) = Len(commands[s]) - 1
  BY <1>0, RedisElim
<1>2. h.chat \in Chats BY <1>1 DEF Command
<1>3. Answer(s, h) \/ Refusal(s, h) BY DEF RedisAnswers
<1> DEFINE S == IF h.op = "subscribe" THEN subscribed[s] \cup {h.chat} ELSE subscribed[s] \ {h.chat}
           U == IF h.op = "subscribe" THEN subscribed[s] ELSE subscribed[s] \ {h.chat}
           n == IF h.op = "subscribe" THEN handlers[s][h.chat] + 1 ELSE 0
           H == [handlers[s] EXCEPT ![h.chat] = n]
<1>4. \/ /\ subscribed' = [subscribed EXCEPT ![s] = S] /\ handlers' = [handlers EXCEPT ![s] = H]
         /\ forgotten' = forgotten
      \/ /\ subscribed' = [subscribed EXCEPT ![s] = U] /\ handlers' = handlers
         /\ forgotten' = IF h.op = "subscribe" THEN forgotten ELSE forgotten \cup {<<s, h.chat>>}
  <2>1. CASE Answer(s, h)
    <3>1. subscribed' = [subscribed EXCEPT ![s] = S] /\ forgotten' = forgotten
      BY <2>1 DEF Answer, faultVars
    <3>2. handlers' = [handlers EXCEPT ![s] = H] BY <2>1 DEF Answer
    <3> QED BY <3>1, <3>2
  <2>2. CASE Refusal(s, h) BY <2>2 DEF Refusal
  <2> QED BY <1>3, <2>1, <2>2
<1>5. n \in Nat BY <1>2, RedisElim
<1>6. H \in [Chats -> Nat] /\ H[h.chat] = n /\ \A c \in Chats \ {h.chat} : H[c] = handlers[s][c]
  BY <1>2, <1>5, RedisElim
<1>7. S \in SUBSET Chats /\ U \in SUBSET Chats BY <1>2, RedisElim
<1>8. \/ subscribed'[s] = S /\ handlers'[s] = H /\ forgotten' = forgotten
      \/ /\ subscribed'[s] = U /\ handlers'[s] = handlers[s]
         /\ forgotten' = IF h.op = "subscribe" THEN forgotten ELSE forgotten \cup {<<s, h.chat>>}
  BY <1>4, RedisElim
<1> HIDE DEF H
<1>9. RedisTyped'
  <2>1. subscribed' \in [Replicas -> SUBSET Chats] BY <1>4, <1>7, RedisElim
  <2>2. handlers' \in [Replicas -> [Chats -> Nat]] BY <1>4, <1>6, RedisElim
  <2>3. commands' \in [Replicas -> Seq(Command)] BY <1>0, <1>1, RedisElim
  <2>4. \A z \in Replicas : Len(commands'[z]) <= MaxCommands
    <3>1. Len(commands'[s]) <= MaxCommands BY <1>0, <1>1, RedisElim
    <3>2. \A z \in Replicas \ {s} : Len(commands'[z]) <= MaxCommands BY <1>0, RedisElim
    <3> QED BY <3>1, <3>2
  <2> QED BY <2>1, <2>2, <2>3, <2>4 DEF RedisTyped
<1>10. \A z \in Replicas \ {s} : subscribed'[z] = subscribed[z] /\ handlers'[z] = handlers[z]
  BY <1>4, RedisElim
<1>11. \A c \in Chats \ {h.chat} : /\ handlers'[s][c] = handlers[s][c]
                                   /\ c \in subscribed'[s] <=> c \in subscribed[s]
  BY <1>6, <1>8
<1>12. h.op = "subscribe" =>
          /\ forgotten' = forgotten
          /\ \/ h.chat \in subscribed'[s] /\ handlers'[s][h.chat] = handlers[s][h.chat] + 1
             \/ subscribed'[s] = subscribed[s] /\ handlers'[s] = handlers[s]
  BY <1>6, <1>8
<1>13. h.op # "subscribe" =>
          /\ h.chat \notin subscribed'[s]
          /\ \/ handlers'[s][h.chat] = 0 /\ forgotten' = forgotten
             \/ forgotten' = forgotten \cup {<<s, h.chat>>}
  BY <1>6, <1>8
<1> QED BY <1>1, <1>9, <1>10, <1>11, <1>12, <1>13

LEMMA AnswersAwaited ==
    ASSUME Basics, setup' = setup, NEW s \in Replicas, RedisAnswers(s)
    PROVE  CommandsAwaited'
<1> DEFINE h == Head(commands[s])
<1>1. /\ commands[s] # <<>> /\ job' = job
      /\ commands' = [commands EXCEPT ![s] = Tail(commands[s])]
      /\ \E ok \in BOOLEAN : Resume(h, ok)
  BY RedisAnswersParts
<1>2. \A q \in Requests \ {h.by} : req'[q] = req[q] BY <1>1, ResumeReq
<1> QED BY <1>1, <1>2, AwaitedAnswered

LEMMA RedisStep ==
    ASSUME Basics, Next
    PROVE  /\ RedisTyped' /\ CommandsAwaited'
           /\ \/ subscribed' = subscribed /\ handlers' = handlers
              \/ \E s \in Replicas : RedisAnswers(s)
<1>0. setup' = setup BY SetupStays
<1>1. ASSUME NEW s \in Replicas, RedisAnswers(s)
      PROVE  RedisTyped' /\ CommandsAwaited'
  BY <1>0, <1>1, AnswerEffect, AnswersAwaited
<1>2. CASE ~\E s \in Replicas : RedisAnswers(s)
  <2>1. WaitersStay BY <1>2, RequestsStep
  <2>2. CASE redisVars' = redisVars BY <1>0, <2>1, <2>2, NoOrder DEF Ordering
  <2>3. CASE redisVars' # redisVars
    <3>1. ASSUME NEW r \in Requests, NEW l \in Listeners, BindHere(r, l) PROVE Ordering
      BY <1>0, <2>1, <3>1, BindHereOrders
    <3>2. ASSUME NEW r \in Requests, BeginStream(r) \/ CloseStream(r) PROVE Ordering
      BY <1>0, <2>1, <3>2, BeginStreamOrders, CloseStreamOrders
    <3>3. ASSUME NEW c \in Chats, NEW l \in Listeners, BindArrives(c, l) PROVE Ordering
      BY <1>0, <2>1, <3>3, BindArrivesOrders
    <3>4. ASSUME NEW s \in Replicas, CleanUp(s) PROVE Ordering
      BY <1>0, <3>4, CleanUpOrders
    <3> QED BY <1>2, <2>3, <3>1, <3>2, <3>3, <3>4, RedisChanges DEF Ordering
  <2> QED BY <2>2, <2>3 DEF Ordering
<1> QED BY <1>1, <1>2

----------------------------------------------------------------------------
(***************************************************************************)
(* The other types                                                         *)
(***************************************************************************)
LEMMA RedisAnswersLeaves ==
    ASSUME NEW s \in Replicas, RedisAnswers(s)
    PROVE  /\ UNCHANGED runVars /\ UNCHANGED panelVars /\ UNCHANGED disturbed
           /\ UNCHANGED <<closed, broken>> /\ (budget' = budget \/ Fault)
BY DEF RedisAnswers, Answer, Refusal, faultVars

LEMMA RunTypedStep ==
    ASSUME Basics, Next
    PROVE  RunTyped'
<1>0. /\ wire \in Seq(Requests) /\ aborted \subseteq Requests /\ abortEvents \in Seq(Chats)
      /\ job \in [Requests -> {"none", "waiting", "active", "completed", "failed"}]
      /\ pool \in [Chats -> Requests \cup {NoRun}]
      /\ \A r \in Requests : ChatOf(r) \in Chats
  BY TypeParts, SetupElim DEF Basics, RunTyped
<1>1. CASE runVars' = runVars BY <1>1, PartsKept DEF Basics
<1>2. ASSUME NEW r \in Requests, Refuse(r) \/ EndRun(r) \/ CountFails(r) PROVE RunTyped'
  BY <1>0, <1>2 DEF RunTyped, Refuse, EndRun, CountFails, RemoveController
<1>3. ASSUME NEW r \in Requests, Accept(r) \/ TakeJob(r) \/ EndJob(r) PROVE RunTyped'
  BY <1>0, <1>3 DEF RunTyped, Accept, TakeJob, EndJob
<1>4. ASSUME NEW r \in Requests, Publish(r) PROVE RunTyped'
  <2>1. Append(wire, r) \in Seq(Requests) BY <1>0
  <2> QED BY <1>0, <1>4, <2>1 DEF RunTyped, Publish
<1>5. CASE WorkerDies BY <1>0, <1>5 DEF RunTyped, WorkerDies
<1>6. CASE Deliver \/ \E s \in Replicas : Miss(s)
  <2>1. wire # <<>> /\ wire' = Tail(wire) BY <1>6 DEF Deliver, Miss
  <2>2. Tail(wire) \in Seq(Requests) BY <1>0, <2>1
  <2>3. UNCHANGED <<job, pool, aborted, abortEvents>> BY <1>6 DEF Deliver, Miss
  <2> QED BY <1>0, <2>1, <2>2, <2>3 DEF RunTyped
<1>7. ASSUME NEW c \in Chats, AbortRun(c) PROVE aborted' \subseteq Requests /\ pool' \in [Chats -> Requests \cup {NoRun}]
  BY <1>0, <1>7 DEF AbortRun
<1>8. CASE AbortArrives
  <2>1. Head(abortEvents) \in Chats /\ Tail(abortEvents) \in Seq(Chats) BY <1>0, <1>8 DEF AbortArrives
  <2> QED BY <1>0, <1>7, <1>8, <2>1 DEF RunTyped, AbortArrives
<1>9. ASSUME NEW c \in Chats, AbortChat(c) PROVE RunTyped'
  <2>1. Append(abortEvents, c) \in Seq(Chats) BY <1>0
  <2> QED BY <1>0, <1>7, <1>9, <2>1 DEF RunTyped, AbortChat
<1> QED BY <1>1, <1>2, <1>3, <1>4, <1>5, <1>6, <1>8, <1>9, RunChanges, RedisAnswersLeaves

LEMMA PanelTypedStep ==
    ASSUME Basics, Next
    PROVE  PanelTyped'
<1>0. /\ panel \in [Listeners -> Stages] /\ registry \subseteq Listeners
      /\ binds \subseteq Chats \X Listeners /\ \A r \in Requests : ChatOf(r) \in Chats
  BY TypeParts, SetupElim DEF Basics, PanelTyped
<1>1. CASE panelVars' = panelVars BY <1>1, PartsKept DEF Basics
<1>2. ASSUME NEW r \in Requests, NEW l \in Listeners, BindThere(r, l) PROVE PanelTyped'
  BY <1>0, <1>2 DEF PanelTyped, BindThere
<1>3. CASE Evict BY <1>0, <1>3 DEF PanelTyped, Evict
<1>4. ASSUME NEW c \in Chats, NEW l \in Listeners, BindArrives(c, l) PROVE PanelTyped'
  BY <1>0, <1>4 DEF PanelTyped, BindArrives
<1>5. ASSUME NEW l \in Listeners, \/ Register(l) \/ OpenPanel(l) \/ AttachPanel(l) \/ FirstBeat(l)
                                  \/ Hangup(l) \/ Unregister(l)
      PROVE PanelTyped'
  BY <1>0, <1>5 DEF PanelTyped, Register, OpenPanel, AttachPanel, FirstBeat, Hangup, Unregister,
                    Move, Installed, Stages
<1>6. ASSUME NEW l \in Listeners, Beat(l) \/ Dismiss(l) PROVE PanelTyped'
  BY <1>0, <1>6 DEF PanelTyped, Beat, Dismiss
<1> QED BY <1>1, <1>2, <1>3, <1>4, <1>5, <1>6, PanelChanges, RedisAnswersLeaves

LEMMA FaultTypedStep ==
    ASSUME Basics, Next
    PROVE  FaultTyped'
<1>0. /\ broken \subseteq closed /\ closed \subseteq Responses
      /\ forgotten \subseteq Replicas \X Chats
      /\ budget \in [faults : 0 .. MaxFaults, clicks : 0 .. MaxClicks]
      /\ MaxFaults \in Nat /\ MaxClicks \in Nat
  BY TypeParts, StreamsAssumption DEF Basics, FaultTyped, StreamsAssumption
<1>1. CASE faultVars' = faultVars BY <1>1, PartsKept DEF Basics
<1>2. Fault \/ Click => budget' \in [faults : 0 .. MaxFaults, clicks : 0 .. MaxClicks]
  <2>1. Fault => budget.faults - 1 \in 0 .. MaxFaults BY <1>0 DEF Fault
  <2>2. Click => budget.clicks - 1 \in 0 .. MaxClicks BY <1>0 DEF Click
  <2> QED BY <1>0, <2>1, <2>2 DEF Fault, Click
<1>3. ASSUME UNCHANGED <<closed, broken, forgotten>>, budget' = budget \/ Fault \/ Click
      PROVE  FaultTyped'
  BY <1>0, <1>2, <1>3 DEF FaultTyped
<1>4. ASSUME NEW w \in Responses, Close(w), forgotten' = forgotten, budget' = budget \/ Fault
      PROVE  FaultTyped'
  <2>1. closed' \subseteq Responses /\ broken' \subseteq closed' BY <1>0, <1>4 DEF Close
  <2> QED BY <1>0, <1>2, <1>4, <2>1 DEF FaultTyped
<1>5. ASSUME NEW r \in Requests,
             CountFails(r) \/ Publish(r) \/ \E l \in Listeners : BindThere(r, l)
      PROVE  FaultTyped'
  BY <1>3, <1>5 DEF CountFails, Publish, BindThere
<1>6. ASSUME NEW r \in Requests, LoseClient(r) PROVE FaultTyped'
  BY <1>4, <1>6 DEF LoseClient, Responses
<1>7. ASSUME NEW l \in Listeners, ClosePanel(l) PROVE FaultTyped'
  BY <1>4, <1>7 DEF ClosePanel, Responses
<1>8. ASSUME NEW l \in Listeners, FirstBeat(l) \/ Unregister(l) \/ Dismiss(l) PROVE FaultTyped'
  BY <1>3, <1>8 DEF FirstBeat, Unregister, Dismiss
<1>9. ASSUME NEW c \in Chats, AbortChat(c) \/ \E s \in Replicas : AbortSpeech(s, c)
      PROVE  FaultTyped'
  BY <1>3, <1>9 DEF AbortChat, AbortSpeech
<1>10. CASE WorkerDies \/ \E s \in Replicas : Miss(s) BY <1>3, <1>10 DEF WorkerDies, Miss
<1>11. ASSUME NEW s \in Replicas, RedisAnswers(s) PROVE FaultTyped'
  <2> DEFINE h == Head(commands[s])
  <2>1. h \in Command /\ (forgotten' = forgotten \/ forgotten' = forgotten \cup {<<s, h.chat>>})
    BY <1>11, AnswerEffect
  <2>2. forgotten' \subseteq Replicas \X Chats BY <1>0, <2>1 DEF Command
  <2>3. UNCHANGED <<closed, broken>> /\ (budget' = budget \/ Fault) BY <1>11, RedisAnswersLeaves
  <2> QED BY <1>0, <1>2, <2>2, <2>3 DEF FaultTyped
<1> QED BY <1>1, <1>5, <1>6, <1>7, <1>8, <1>9, <1>10, <1>11, FaultChanges

LEMMA DisturbedTypedStep ==
    ASSUME Basics, Next
    PROVE  DisturbedTyped' /\ disturbed \subseteq disturbed'
<1>0. disturbed \subseteq Requests BY TypeParts DEF Basics, DisturbedTyped
<1>1. CASE disturbed' = disturbed BY <1>0, <1>1 DEF DisturbedTyped
<1>2. ASSUME NEW r \in Requests, BeginStream(r) \/ BeginJson(r) \/ BeginHook(r)
      PROVE  DisturbedTyped' /\ disturbed \subseteq disturbed'
  <2>1. Meet(r) BY <1>2 DEF BeginStream, BeginJson, BeginHook
  <2> QED BY <1>0, <2>1 DEF Meet, DisturbedTyped, Fellows
<1>3. ASSUME NEW s \in Replicas, NEW c \in Chats, AbortSpeech(s, c)
      PROVE  DisturbedTyped' /\ disturbed \subseteq disturbed'
  BY <1>0, <1>3 DEF AbortSpeech, DisturbedTyped
<1> QED BY <1>1, <1>2, <1>3, DisturbedChanges, RedisAnswersLeaves

----------------------------------------------------------------------------
(***************************************************************************)
(* Types, verdicts                                                         *)
(***************************************************************************)
LEMMA BasicsInit ==
    ASSUME Init
    PROVE  Basics
<1>1. SetupTyped /\ PanelTyped /\ DisturbedTyped BY DEF Init, SetupTyped, PanelTyped, Stages, DisturbedTyped
<1>2. ReqTyped
  <2>1. MaxTokens \in Nat BY StreamsAssumption DEF StreamsAssumption
  <2>2. [pc |-> "idle", todo |-> {}, tokens |-> 0, dropped |-> 0, built |-> FALSE, tries |-> 0,
         received |-> {}] \in Request
    BY <2>1 DEF Request, Pcs
  <2> QED BY <2>2 DEF Init, ReqTyped
<1>3. SseTyped BY NewStreamerType DEF Init, SseTyped
<1>4. RedisTyped
  <2>1. MaxCommands \in Nat BY StreamsAssumption DEF StreamsAssumption
  <2> QED BY <2>1 DEF Init, RedisTyped
<1>5. RunTyped BY DEF Init, RunTyped
<1>6. FaultTyped BY <1>1, SetupElim DEF Init, FaultTyped
<1>7. RequestsFit BY DEF Init, RequestsFit, Fits
<1>8. CommandsAwaited BY DEF Init, CommandsAwaited, Awaited
<1> QED BY <1>1, <1>2, <1>3, <1>4, <1>5, <1>6, <1>7, <1>8, TypeParts DEF Basics

LEMMA BasicsStutter ==
    ASSUME Basics, UNCHANGED vars
    PROVE  Basics'
<1>1. TypeOK' BY PartsKept, TypePartsNext DEF Basics, vars, redisVars, runVars, panelVars, faultVars
<1>2. RequestsFit' BY FitsStays DEF Basics, vars
<1>3. CommandsAwaited' BY AwaitedKept DEF vars, WaitersStay
<1> QED BY <1>1, <1>2, <1>3 DEF Basics

LEMMA BasicsStep ==
    ASSUME Basics, [Next]_vars
    PROVE  Basics'
<1>1. CASE UNCHANGED vars BY <1>1, BasicsStutter
<1>2. CASE Next
  <2>1. SetupTyped' BY <1>2, SetupStays, PartsKept DEF Basics
  <2>2. SseTyped' BY <1>2, SseStep DEF StreamersStep
  <2> QED BY <1>2, <2>1, <2>2, RequestsStep, RedisStep, RunTypedStep, PanelTypedStep,
             FaultTypedStep, DisturbedTypedStep, TypePartsNext DEF Basics
<1> QED BY <1>1, <1>2

\* Type correctness of the streaming layer, for any requests, panels, chats,
\* replicas, configurations and bounds; each place of a request belongs to its
\* kind and mode, and whoever a command to Redis is for waits for just that one.
THEOREM StreamsTypeCorrect == Spec => [](TypeOK /\ RequestsFit /\ CommandsAwaited)
<1>1. Init => Basics BY BasicsInit
<1>2. Basics /\ [Next]_vars => Basics' BY BasicsStep
<1> QED BY <1>1, <1>2, PTL DEF Spec, Basics

\* The endpoint of a callback never hears two verdicts of one execution, whatever
\* is lost and repeated: built is settled before the first attempt, and no step
\* of the attempts changes it (dispatchCallback after the run).
THEOREM OneVerdictHolds == Spec => []OneVerdict
<1>1. Basics => OneVerdict
  <2> SUFFICES ASSUME Basics, NEW r \in Requests PROVE Cardinality(req[r].received) <= 1
    BY DEF OneVerdict
  <2> DEFINE v == VerdictOf(req[r])
  <2>1. req[r].received = {} \/ req[r].received = {v} BY RequestFits DEF Fits
  <2> HIDE DEF v
  <2>2. Cardinality({}) = 0 /\ Cardinality({v}) = 1 BY FS_EmptySet, FS_Singleton
  <2> QED BY <2>1, <2>2
<1> QED BY <1>1, StreamsTypeCorrect, PTL DEF Basics
==============================================================================
