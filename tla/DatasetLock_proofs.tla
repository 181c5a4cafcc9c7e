--------------------------- MODULE DatasetLock_proofs ---------------------------
(* Theorems about DatasetLock for any number of threads, calls, keys and layers. *)
EXTENDS DatasetLock, SequenceTheorems, FiniteSetTheorems, TLAPS

--------------------------------------------------------------------------------
(* The inductive invariant.                                                *)

\* What a thread has yet to run of one call: put() and set_layer_presence() are
\* followed by set_layer_presence() only, the bit taken away by the bit set, and
\* the load of a lookup by its answer.
Well(q, ls) ==
  /\ q \in Seq(Section)
  /\ \A i \in DOMAIN q : q[i].kind = "presence" =>
       IF q[i].present THEN q[i].layer \in ls
       ELSE /\ i + 1 \in DOMAIN q /\ q[i + 1].kind = "presence"
            /\ q[i + 1].present /\ q[i + 1].name = q[i].name
  /\ \A i \in DOMAIN q : i > 1 => q[i].kind \in {"presence", "answer"}
  /\ \A i \in DOMAIN q : i > 1 /\ q[1].kind # "load" => q[i].kind = "presence"
  /\ q # <<>> /\ q[1].kind = "load" => Len(q) = 2 /\ q[2] = [q[1] EXCEPT !.kind = "answer"]
  /\ q # <<>> /\ q[1].kind \notin {"put", "presence", "load"} => Len(q) = 1

\* The arrays in memory and in the file.
Arrays ==
  /\ phase \in {"before", "open", "after"}
  /\ data \in [Names -> Vals \cup {Unloaded, Missing}]
  /\ file \in Maps \cup {Absent}
  /\ m_flushed \in BOOLEAN
  /\ \A n \in Names : data[n] = Unloaded => file # Absent /\ file[n] # Missing
  /\ m_flushed /\ phase = "open" => file = [n \in Names |-> View(n)]
  /\ phase = "before" => ~m_flushed /\ \A n \in Names : data[n] = Missing

\* The mutex, and what the threads are about to do.
Calling ==
  /\ held \in [Threads -> {"nothing", "shared", "twice", "exclusive"}]
  /\ \A t, u \in Threads : held[t] = "exclusive" /\ u # t => held[u] = "nothing"
  /\ todo \in [Threads -> Seq(Section)]
  /\ \A t \in Threads : Well(todo[t], layers)
  /\ phase # "open" => \A t \in Threads : todo[t] = <<>>
  /\ calls \in [Threads -> Nat]

\* Layers and bitmaps: those of a layer that does not exist yet are empty, and
\* those of the file list every array of the file.
Listings ==
  /\ layers \subseteq Layers /\ bits \in [AllLayers -> SUBSET Names]
  /\ header \in [layers : SUBSET Layers, bits : [AllLayers -> SUBSET Names]]
  /\ \A l \in Layers \ layers : bits[l] = {}
  /\ phase = "before" =>
       /\ \A l \in Layers : header.bits[l] = {}
       /\ file # Absent => \A n \in Names : file[n] # Missing => n \in header.bits[Base]

\* A lookup under way has seen what the name has now, and an array of the element
\* type it asks for since it found one.
Lookup(t) ==
  LET s == todo[t][1]
  IN todo[t] # <<>> =>
       /\ s.kind \in {"find", "load", "answer"} => View(s.name) \in seen[t]
       /\ s.kind \in {"load", "answer"} =>
            /\ View(s.name) # Missing
            /\ \E v \in seen[t] \cap Vals : TypeOf[v] = s.type
       /\ s.kind = "answer" => data[s.name] \in Vals
       /\ s.kind \notin {"find", "load", "answer"} => seen[t] = {}

Lookups ==
  /\ answer \in [Threads -> Answers]
  /\ seen \in [Threads -> SUBSET (Vals \cup {Missing})]
  /\ \A t \in Threads : IsFiniteSet(seen[t])
  /\ \A t \in Threads : todo[t] # <<>> => answer[t] = "none"
  /\ \A t \in Threads : Lookup(t)
  /\ AnswersComeFromTheCall

Inv == Arrays /\ Calling /\ Listings /\ Lookups /\ EveryArrayHasALayer

--------------------------------------------------------------------------------
(* Sections.                                                               *)

\* The fields a section has, by its kind.
LEMMA SectionFacts ==
  ASSUME NEW s \in Section
  PROVE  /\ s.kind = "put" => s.name \in Names /\ s.val \in Vals
         /\ s.kind = "presence" => s.layer \in AllLayers /\ s.name \in Keys /\ s.present \in BOOLEAN
         /\ s.kind \in {"find", "load", "answer"} =>
              s \in LookupSection /\ s.name \in Names /\ s.type \in Types /\ s.else \in Keys \cup {"none"}
         /\ s.kind = "prefetch" => s.name \in Names
         /\ s.kind \in {"create_layer", "get_layer"} => s.layer \in Layers
         /\ s.kind \in {"put", "presence", "find", "load", "answer", "prefetch", "create_layer",
                        "get_layer", "flush"}
<1>1. CASE s \in PutSection BY <1>1 DEF PutSection
<1>2. CASE s \in PresenceSection BY <1>2 DEF PresenceSection
<1>3. CASE s \in LookupSection BY <1>3 DEF LookupSection
<1>4. CASE s \in PrefetchSection BY <1>4 DEF PrefetchSection
<1>5. CASE s \in LayerSection BY <1>5 DEF LayerSection
<1>6. CASE s \in FlushSection BY <1>6 DEF FlushSection
<1> QED BY <1>1, <1>2, <1>3, <1>4, <1>5, <1>6 DEF Section

\* Names: those of the base layer, and those of arrays of layers.
LEMMA NameFacts == /\ Keys \subseteq Names /\ Base \in AllLayers /\ Layers \subseteq AllLayers
                   /\ \A l \in Layers, k \in Keys : StorageKey(l, k) \in Names
BY DEF Names, AllLayers, StorageKey

\* The calls begin with sections.
LEMMA SectionTypes ==
  /\ \A n \in Names, v \in Vals : Put(n, v) \in Section
  /\ \A l \in AllLayers, k \in Keys, on \in BOOLEAN : Presence(l, k, on) \in Section
  /\ \A n \in Names, ty \in Types, k \in Keys \cup {"none"} : Find(n, ty, k) \in Section
  /\ \A n \in Names : [kind |-> "prefetch", name |-> n] \in Section
  /\ \A l \in Layers, kind \in {"create_layer", "get_layer"} : [kind |-> kind, layer |-> l] \in Section
  /\ [kind |-> "flush"] \in Section
<1>1. \A n \in Names, v \in Vals : Put(n, v) \in PutSection BY DEF Put, PutSection
<1>2. \A l \in AllLayers, k \in Keys, on \in BOOLEAN : Presence(l, k, on) \in PresenceSection
  BY DEF Presence, PresenceSection
<1>3. \A n \in Names, ty \in Types, k \in Keys \cup {"none"} : Find(n, ty, k) \in LookupSection
  BY DEF Find, LookupSection
<1>4. \A n \in Names : [kind |-> "prefetch", name |-> n] \in PrefetchSection BY DEF PrefetchSection
<1>5. \A l \in Layers, kind \in {"create_layer", "get_layer"} : [kind |-> kind, layer |-> l] \in LayerSection
  BY DEF LayerSection
<1>6. [kind |-> "flush"] \in FlushSection BY DEF FlushSection
<1> QED BY <1>1, <1>2, <1>3, <1>4, <1>5, <1>6 DEF Section

\* A call of one section that is neither a load nor a bit to take away.
LEMMA WellSingle ==
  ASSUME NEW ls, NEW s \in Section, s.kind \notin {"load", "presence"}
  PROVE  Well(<<s>>, ls) /\ <<s>> # <<>> /\ <<s>>[1] = s
BY DEF Well

LEMMA WellEmpty == ASSUME NEW ls PROVE Well(<<>>, ls)
BY DEF Well

\* LayerView::put().
LEMMA WellLayerPut ==
  ASSUME NEW ls, NEW l \in Layers, l \in ls, NEW k \in Keys, NEW v \in Vals
  PROVE  /\ Well(LayerPut(l, k, v), ls) /\ LayerPut(l, k, v) # <<>>
         /\ LayerPut(l, k, v)[1].kind = "put"
<1> DEFINE a == Put(StorageKey(l, k), v)
           b == Presence(Base, k, FALSE)
           c == Presence(l, k, TRUE)
<1>1. a \in Section /\ b \in Section /\ c \in Section BY NameFacts, SectionTypes
<1>2. /\ a.kind = "put" /\ b.kind = "presence" /\ c.kind = "presence"
      /\ b.present = FALSE /\ c.present = TRUE /\ c.layer = l /\ b.name = k /\ c.name = k
  BY DEF Put, Presence
<1>3. LayerPut(l, k, v) = <<a, b, c>> BY DEF LayerPut
<1> HIDE DEF a, b, c
<1>4. Well(<<a, b, c>>, ls) /\ <<a, b, c>> # <<>> /\ <<a, b, c>>[1] = a BY <1>1, <1>2 DEF Well
<1> QED BY <1>2, <1>3, <1>4

\* A lookup that has to load.
LEMMA WellLoad ==
  ASSUME NEW ls, NEW a \in Section, a.kind = "load", NEW b \in Section, b.kind = "answer",
         b = [a EXCEPT !.kind = "answer"]
  PROVE  Well(<<a, b>>, ls) /\ <<a, b>> # <<>> /\ <<a, b>>[1] = a
<1> DEFINE q == <<a, b>>
<1>1. /\ q \in Seq(Section) /\ Len(q) = 2 /\ DOMAIN q = {1, 2} /\ q # <<>>
      /\ q[1] = a /\ q[2] = b
  OBVIOUS
<1> HIDE DEF q
<1>2. \A i \in DOMAIN q : q[i].kind \in {"load", "answer"} BY <1>1
<1>3. ASSUME NEW i \in DOMAIN q, i > 1 PROVE q[i].kind = "answer"
  <2>1. i = 2 BY <1>1, <1>3
  <2> QED BY <1>1, <2>1
<1>4. Well(q, ls) BY <1>1, <1>2, <1>3 DEF Well
<1> QED BY <1>1, <1>4 DEF q

\* The end of a section that is followed by another one.
LEMMA WellTail ==
  ASSUME NEW ls, NEW q, Well(q, ls), q # <<>>,
         q[1].kind \in {"put", "presence", "load"}
  PROVE  /\ Well(Tail(q), ls) /\ Len(Tail(q)) = Len(q) - 1
         /\ \A i \in DOMAIN Tail(q) : Tail(q)[i] = q[i + 1] /\ i + 1 \in DOMAIN q
<1>1. /\ q \in Seq(Section) /\ Len(q) \in Nat \ {0} /\ DOMAIN q = 1 .. Len(q)
  BY DEF Well
<1>2. /\ Tail(q) \in Seq(Section) /\ Len(Tail(q)) = Len(q) - 1
      /\ DOMAIN Tail(q) = 1 .. (Len(q) - 1)
      /\ \A i \in DOMAIN Tail(q) : Tail(q)[i] = q[i + 1] /\ i + 1 \in DOMAIN q
  BY <1>1, HeadTailProperties
<1>3. CASE q[1].kind = "load"
  <2>1. Len(Tail(q)) = 1 /\ DOMAIN Tail(q) = 1 .. 1 /\ Tail(q)[1].kind = "answer"
    <3>1. Len(q) = 2 /\ q[2] = [q[1] EXCEPT !.kind = "answer"] BY <1>3 DEF Well
    <3>2. q[1] \in LookupSection BY <1>1, <1>3, SectionFacts
    <3>3. q[2].kind = "answer" BY <3>1, <3>2 DEF LookupSection
    <3>4. Len(Tail(q)) = 1 /\ DOMAIN Tail(q) = 1 .. 1 BY <1>2, <3>1
    <3>5. Tail(q)[1] = q[1 + 1] BY <1>2, <3>4
    <3> QED BY <3>3, <3>4, <3>5
  <2>2. Tail(q) \in Seq(Section) BY <1>2
  <2> QED BY <1>2, <2>1, <2>2 DEF Well
<1>4. CASE q[1].kind # "load"
  <2>1. \A i \in DOMAIN Tail(q) : Tail(q)[i].kind = "presence"
    BY <1>1, <1>2, <1>4 DEF Well
  <2>2. \A i \in DOMAIN Tail(q) :
          IF Tail(q)[i].present THEN Tail(q)[i].layer \in ls
          ELSE /\ i + 1 \in DOMAIN Tail(q) /\ Tail(q)[i + 1].kind = "presence"
               /\ Tail(q)[i + 1].present /\ Tail(q)[i + 1].name = Tail(q)[i].name
    BY <1>1, <1>2, <2>1 DEF Well
  <2>3. Tail(q) # <<>> => 1 \in DOMAIN Tail(q) BY <1>1, <1>2
  <2> QED BY <1>2, <2>1, <2>2, <2>3 DEF Well
<1> QED BY <1>2, <1>3, <1>4

\* The later sections of a call move up by one.
LEMMA TailIndex ==
  ASSUME NEW q \in Seq(Section), NEW i \in DOMAIN q, i # 1
  PROVE  i - 1 \in DOMAIN Tail(q) /\ Tail(q)[i - 1] = q[i]
<1>1. q # <<>> /\ Len(q) \in Nat \ {0} /\ DOMAIN q = 1 .. Len(q) OBVIOUS
<1>2. /\ DOMAIN Tail(q) = 1 .. (Len(q) - 1)
      /\ \A j \in DOMAIN Tail(q) : Tail(q)[j] = q[j + 1]
  BY <1>1, HeadTailProperties
<1>3. i - 1 \in DOMAIN Tail(q) /\ (i - 1) + 1 = i BY <1>1, <1>2
<1>4. Tail(q)[i - 1] = q[(i - 1) + 1] BY <1>2, <1>3
<1> QED BY <1>3, <1>4

\* Two different arrays were seen.
LEMMA TwoSeen ==
  ASSUME NEW S, IsFiniteSet(S), NEW a \in S, NEW b \in S, a # b
  PROVE  Cardinality(S) > 1
<1>1. Cardinality(S) \in Nat BY FS_CardinalityType
<1>2. Cardinality(S) # 0 BY FS_EmptySet
<1>3. Cardinality(S) # 1 BY FS_Singleton
<1> QED BY <1>1, <1>2, <1>3

\* The sections a thread has left stay well-formed when layers are created.
LEMMA WellGrows ==
  ASSUME NEW ls, NEW ms, ls \subseteq ms, NEW q, Well(q, ls)
  PROVE  Well(q, ms)
BY DEF Well

\* The section a thread runs.
LEMMA HeadFacts ==
  ASSUME Calling, NEW t \in Threads, todo[t] # <<>>
  PROVE  /\ phase = "open" /\ Head(todo[t]) = todo[t][1] /\ 1 \in DOMAIN todo[t]
         /\ todo[t][1] \in Section /\ Well(todo[t], layers)
<1>1. Well(todo[t], layers) /\ phase = "open" BY DEF Calling
<1>2. todo[t] \in Seq(Section) BY <1>1 DEF Well
<1> QED BY <1>1, <1>2

\* A call of one section: neither a put, nor a bit, nor a load.
LEMMA Alone ==
  ASSUME Calling, NEW t \in Threads, todo[t] # <<>>,
         todo[t][1].kind \notin {"put", "presence", "load"}
  PROVE  DOMAIN todo[t] = {1}
<1>1. /\ todo[t] \in Seq(Section)
      /\ Len(todo[t]) = 1
  BY DEF Calling, Well
<1> QED BY <1>1

--------------------------------------------------------------------------------
(* What the steps of the threads have in common.                           *)

\* The end of a section.
LEMMA CallingRelease ==
  ASSUME Calling, NEW t \in Threads, todo[t] # <<>>, phase' = phase,
         NEW next, Release(t, next), Well(next, layers'), layers \subseteq layers'
  PROVE  /\ Calling' /\ todo'[t] = next
         /\ \A u \in Threads \ {t} : todo'[u] = todo[u]
<1>1. /\ held' \in [Threads -> {"nothing", "shared", "twice", "exclusive"}]
      /\ \A u, w \in Threads : held'[u] = "exclusive" /\ w # u => held'[w] = "nothing"
  BY DEF Calling, Release
<1>2. /\ todo' \in [Threads -> Seq(Section)] /\ todo'[t] = next
      /\ \A u \in Threads \ {t} : todo'[u] = todo[u]
  <2>1. next \in Seq(Section) BY DEF Well
  <2> QED BY <2>1 DEF Calling, Release
<1>3. ASSUME NEW u \in Threads PROVE Well(todo'[u], layers')
  <2>1. CASE u = t BY <1>2, <2>1
  <2>2. CASE u # t BY <1>2, <2>2, WellGrows DEF Calling
  <2> QED BY <2>1, <2>2
<1>4. phase' = "open" BY DEF Calling
<1>5. calls' \in [Threads -> Nat] BY DEF Calling, Release
<1> QED BY <1>1, <1>2, <1>3, <1>4, <1>5 DEF Calling

\* The lookups of the other threads, when an array is loaded or nothing changes.
LEMMA LookupKept ==
  ASSUME NEW u \in Threads, Lookup(u), todo'[u] = todo[u], seen'[u] = seen[u],
         Calling,
         \A n \in Names : View(n)' = View(n) /\ (data[n] \in Vals => data'[n] \in Vals)
  PROVE  Lookup(u)'
<1>1. CASE todo[u] = <<>> BY <1>1 DEF Lookup
<1>2. CASE todo[u] # <<>>
  <2>1. todo[u][1] \in Section BY <1>2, HeadFacts
  <2>2. todo[u][1].kind \in {"find", "load", "answer"} => todo[u][1].name \in Names
    BY <2>1, SectionFacts
  <2> DEFINE n == todo[u][1].name
  <2>3. todo[u][1].kind \in {"find", "load", "answer"} => View(n)' = View(n) BY <2>2
  <2>4. todo[u][1].kind \in {"find", "load", "answer"} => (data[n] \in Vals => data'[n] \in Vals)
    BY <2>2
  <2> QED BY <1>2, <2>3, <2>4 DEF Lookup
<1> QED BY <1>1, <1>2

\* What one thread has to show for the answers of all.
Returned(t) ==
  todo[t] = <<>> =>
    /\ answer[t] \in Vals => answer[t] \in seen[t]
    /\ answer[t] = "not found" /\ seen[t] # {} => Missing \in seen[t]
    /\ answer[t] = "bad variant" => Cardinality(seen[t]) > 1

LEMMA LookupsByThread ==
  Lookups <=> /\ answer \in [Threads -> Answers]
              /\ seen \in [Threads -> SUBSET (Vals \cup {Missing})]
              /\ \A t \in Threads : /\ IsFiniteSet(seen[t])
                                    /\ todo[t] # <<>> => answer[t] = "none"
                                    /\ Lookup(t) /\ Returned(t)
BY DEF Lookups, AnswersComeFromTheCall, Returned

\* A step of one thread that leaves every array what it was.
LEMMA LookupsStep ==
  ASSUME Lookups, Calling, NEW t \in Threads,
         \A u \in Threads \ {t} : todo'[u] = todo[u],
         NEW a \in Answers, answer' = [answer EXCEPT ![t] = a],
         NEW w \in SUBSET (Vals \cup {Missing}), IsFiniteSet(w), seen' = [seen EXCEPT ![t] = w],
         \A n \in Names : View(n)' = View(n) /\ (data[n] \in Vals => data'[n] \in Vals),
         todo'[t] # <<>> => a = "none",
         Lookup(t)', Returned(t)'
  PROVE  Lookups'
<1>1. answer' \in [Threads -> Answers] /\ seen' \in [Threads -> SUBSET (Vals \cup {Missing})]
  BY LookupsByThread
<1>2. ASSUME NEW u \in Threads
      PROVE  /\ IsFiniteSet(seen'[u])
             /\ todo'[u] # <<>> => answer'[u] = "none"
             /\ Lookup(u)' /\ Returned(u)'
  <2>1. CASE u = t
    <3>1. seen'[u] = w /\ answer'[u] = a BY <2>1, LookupsByThread
    <3> QED BY <2>1, <3>1
  <2>2. CASE u # t
    <3>1. todo'[u] = todo[u] /\ seen'[u] = seen[u] /\ answer'[u] = answer[u]
      BY <2>2, LookupsByThread
    <3>2. /\ IsFiniteSet(seen[u]) /\ Lookup(u) /\ Returned(u)
          /\ todo[u] # <<>> => answer[u] = "none"
      BY LookupsByThread
    <3>3. Lookup(u)' BY <3>1, <3>2, LookupKept
    <3>4. Returned(u)' BY <3>1, <3>2 DEF Returned
    <3> QED BY <3>1, <3>2, <3>3, <3>4
  <2> QED BY <2>1, <2>2
<1> QED BY <1>1, <1>2 DEF Lookups, AnswersComeFromTheCall, Returned

\* A step that sets bits and takes none away, by a thread that has no bit to set.
LEMMA ListedStep ==
  ASSUME Calling, EveryArrayHasALayer, NEW t \in Threads, phase' = phase,
         \A u \in Threads \ {t} : todo'[u] = todo[u],
         \A k \in Keys : View(k)' = View(k),
         \A k \in Keys, l \in AllLayers : k \in bits[l] => k \in bits'[l],
         \A i \in DOMAIN todo[t] : todo[t][i].kind # "presence"
  PROVE  EveryArrayHasALayer'
<1> SUFFICES ASSUME phase' = "open", NEW k \in Keys, View(k)' # Missing
             PROVE  \/ \E l \in AllLayers : k \in bits'[l]
                    \/ \E u \in Threads : \E i \in DOMAIN todo'[u] :
                         /\ todo'[u][i].kind = "presence"
                         /\ todo'[u][i].name = k /\ todo'[u][i].present
  BY DEF EveryArrayHasALayer
<1>1. View(k) # Missing /\ phase = "open" BY DEF Calling
<1>2. CASE \E l \in AllLayers : k \in bits[l] BY <1>2
<1>3. CASE \E u \in Threads : \E i \in DOMAIN todo[u] :
             /\ todo[u][i].kind = "presence"
             /\ todo[u][i].name = k /\ todo[u][i].present
  BY <1>3
<1> QED BY <1>1, <1>2, <1>3 DEF EveryArrayHasALayer

\* A step that leaves every array what it was, and takes no layer and no bit away.
Quiet == /\ phase' = phase /\ layers \subseteq layers'
         /\ \A n \in Names : View(n)' = View(n) /\ (data[n] \in Vals => data'[n] \in Vals)
         /\ \A k \in Keys, l \in AllLayers : k \in bits[l] => k \in bits'[l]

LEMMA ViewType == ASSUME Arrays, NEW n \in Names PROVE View(n) \in Vals \cup {Missing}
BY DEF View, Arrays, Maps

LEMMA QuietShared == ASSUME UNCHANGED shared PROVE Quiet
BY DEF shared, Quiet, View

LEMMA NoPresence ==
  ASSUME Calling, NEW t \in Threads, todo[t] # <<>>, todo[t][1].kind \notin {"put", "presence"}
  PROVE  \A i \in DOMAIN todo[t] : todo[t][i].kind # "presence"
<1>1. Well(todo[t], layers) /\ todo[t] \in Seq(Section) /\ todo[t][1] \in Section
  BY HeadFacts DEF Well
<1>2. CASE todo[t][1].kind = "load"
  <2>1. todo[t][1] \in LookupSection BY <1>1, <1>2, SectionFacts
  <2>2. Len(todo[t]) = 2 /\ todo[t][2] = [todo[t][1] EXCEPT !.kind = "answer"]
    BY <1>1, <1>2 DEF Well
  <2>3. todo[t][2].kind = "answer" BY <2>1, <2>2 DEF LookupSection
  <2>4. DOMAIN todo[t] = {1, 2} BY <1>1, <2>2
  <2> QED BY <1>2, <2>3, <2>4
<1>3. CASE todo[t][1].kind # "load" BY <1>3, Alone
<1> QED BY <1>2, <1>3

\* The last section of a call.
LEMMA ReturnKeeps ==
  ASSUME Calling, Lookups, EveryArrayHasALayer, NEW t \in Threads, todo[t] # <<>>,
         todo[t][1].kind \notin {"put", "presence"}, Quiet,
         NEW a \in Answers, Return(t, a),
         a \in Vals => a \in seen[t],
         a = "not found" /\ seen[t] # {} => Missing \in seen[t],
         a = "bad variant" => Cardinality(seen[t]) > 1
  PROVE  Calling' /\ Lookups' /\ EveryArrayHasALayer'
<1>1. /\ Calling' /\ todo'[t] = <<>> /\ \A u \in Threads \ {t} : todo'[u] = todo[u]
  BY CallingRelease, WellEmpty DEF Return, Quiet
<1>2. /\ answer \in [Threads -> Answers] /\ seen \in [Threads -> SUBSET (Vals \cup {Missing})]
      /\ IsFiniteSet(seen[t])
  BY DEF Lookups
<1>3. /\ answer' = [answer EXCEPT ![t] = a] /\ seen' = [seen EXCEPT ![t] = seen[t]]
      /\ answer'[t] = a /\ seen'[t] = seen[t]
  BY <1>2 DEF Return
<1>4. Lookup(t)' BY <1>1 DEF Lookup
<1>5. Returned(t)' BY <1>3 DEF Returned
<1>6. Lookups'
  <2>1. seen[t] \in SUBSET (Vals \cup {Missing}) BY <1>2
  <2> QED BY <1>1, <1>2, <1>3, <1>4, <1>5, <2>1, LookupsStep DEF Quiet
<1>7. EveryArrayHasALayer' BY <1>1, NoPresence, ListedStep, NameFacts DEF Quiet
<1> QED BY <1>1, <1>6, <1>7

\* A section that hands over to other sections of the same lookup.
LEMMA GoOnKeeps ==
  ASSUME Calling, Lookups, EveryArrayHasALayer, NEW t \in Threads, todo[t] # <<>>,
         todo[t][1].kind \notin {"put", "presence"}, Quiet,
         NEW next, next # <<>>, Well(next, layers'), Release(t, next), UNCHANGED answer,
         NEW w \in SUBSET (Vals \cup {Missing}), IsFiniteSet(w), seen' = [seen EXCEPT ![t] = w],
         Lookup(t)'
  PROVE  Calling' /\ Lookups' /\ EveryArrayHasALayer'
<1>1. /\ Calling' /\ todo'[t] = next /\ \A u \in Threads \ {t} : todo'[u] = todo[u]
  BY CallingRelease DEF Quiet
<1>2. /\ answer' = [answer EXCEPT ![t] = "none"] /\ "none" \in Answers
  BY DEF Lookups, Answers
<1>3. Returned(t)' BY <1>1 DEF Returned
<1>4. Lookups' BY <1>1, <1>2, <1>3, LookupsStep DEF Quiet
<1>5. EveryArrayHasALayer' BY <1>1, NoPresence, ListedStep, NameFacts DEF Quiet
<1> QED BY <1>1, <1>4, <1>5

\* An exception of get() or LayerView::get().
LEMMA FailKeeps ==
  ASSUME Arrays, Calling, Lookups, EveryArrayHasALayer, NEW t \in Threads, todo[t] # <<>>,
         todo[t][1].kind \in {"find", "load", "answer"}, UNCHANGED shared,
         NEW a \in Failures, Fail(t, a),
         a = "not found" => Missing \in seen[t],
         a = "bad variant" => Cardinality(seen[t]) > 1
  PROVE  Calling' /\ Lookups' /\ EveryArrayHasALayer'
<1> DEFINE s == todo[t][1]
<1>1. Head(todo[t]) = s /\ s.type \in Types /\ s.else \in Keys \cup {"none"}
  BY HeadFacts, SectionFacts
<1>2. Quiet BY QuietShared
<1>3. CASE s.else # "none" /\ a # "bad variant"
  <2>1. PICK k \in Keys : k = s.else /\ k \in Names /\ k # "none"
    BY <1>1, <1>3, NameFacts
  <2> DEFINE f == Find(k, s.type, "none")
             w == {View(k)}
  <2>2. Release(t, <<f>>) /\ seen' = [seen EXCEPT ![t] = w] /\ UNCHANGED answer
    BY <1>1, <1>3, <2>1 DEF Fail
  <2>3. f \in Section /\ f.kind = "find" /\ f.name = k
    BY <1>1, <2>1, SectionTypes DEF Find
  <2>4. Well(<<f>>, layers') /\ <<f>> # <<>> /\ <<f>>[1] = f BY <2>3, WellSingle
  <2>5. w \in SUBSET (Vals \cup {Missing}) /\ IsFiniteSet(w) /\ View(k) \in w
    BY <2>1, ViewType, FS_Singleton
  <2>6. View(k)' = View(k) BY <1>2, <2>1 DEF Quiet
  <2> HIDE DEF f, w
  <2>7. Lookup(t)'
    <3>1. todo'[t] = <<f>> BY <2>2 DEF Release, Calling
    <3>2. seen'[t] = w BY <2>2 DEF Lookups
    <3> QED BY <2>3, <2>4, <2>5, <2>6, <3>1, <3>2 DEF Lookup
  <2> QED BY <1>2, <2>2, <2>4, <2>5, <2>7, GoOnKeeps
<1>4. CASE ~(s.else # "none" /\ a # "bad variant")
  <2>1. Return(t, a) BY <1>1, <1>4 DEF Fail
  <2>2. a \in Answers /\ a \notin Vals BY LockNamesAssumption DEF Failures, Answers
  <2> QED BY <1>2, <2>1, <2>2, ReturnKeeps
<1> QED BY <1>3, <1>4

\* load_entry() changes no array.
LEMMA LoadViews ==
  ASSUME Arrays, NEW n \in Names, data' = Load(n), UNCHANGED file
  PROVE  \A m \in Names :
           /\ View(m)' = View(m) /\ (data[m] \in Vals => data'[m] \in Vals)
           /\ data'[m] \in Vals \cup {Unloaded, Missing}
           /\ data'[m] = Unloaded => data[m] = Unloaded
           /\ phase = "before" => data'[m] = data[m]
<1> SUFFICES ASSUME NEW m \in Names
             PROVE  /\ View(m)' = View(m) /\ (data[m] \in Vals => data'[m] \in Vals)
                    /\ data'[m] \in Vals \cup {Unloaded, Missing}
                    /\ data'[m] = Unloaded => data[m] = Unloaded
                    /\ phase = "before" => data'[m] = data[m]
  OBVIOUS
<1>1. data'[m] = IF m = n /\ data[n] = Unloaded THEN file[n] ELSE data[m]
  BY DEF Load, Arrays
<1>2. data[n] = Unloaded => file[n] \in Vals BY DEF Arrays, Maps
<1>3. phase = "before" => data[n] # Unloaded BY LockNamesAssumption DEF Arrays
<1> QED BY <1>1, <1>2, <1>3, LockNamesAssumption DEF View, Arrays

LEMMA LoadKeeps ==
  ASSUME Arrays, NEW n \in Names, data' = Load(n), UNCHANGED <<phase, layers, bits, m_flushed, file>>
  PROVE  Arrays' /\ Quiet /\ data'[n] # Unloaded
<1>1. ASSUME NEW m \in Names
      PROVE  /\ View(m)' = View(m) /\ (data[m] \in Vals => data'[m] \in Vals)
             /\ data'[m] \in Vals \cup {Unloaded, Missing}
             /\ data'[m] = Unloaded => data[m] = Unloaded
             /\ phase = "before" => data'[m] = data[m]
  BY LoadViews
<1>2. data' \in [Names -> Vals \cup {Unloaded, Missing}]
  <2>1. data' = [m \in Names |-> data'[m]] BY DEF Load, Arrays
  <2> QED BY <1>1, <2>1
<1>3. [m \in Names |-> View(m)'] = [m \in Names |-> View(m)] BY <1>1
<1>4. data'[n] # Unloaded
  <2>1. data'[n] = IF data[n] = Unloaded THEN file[n] ELSE data[n] BY DEF Load, Arrays
  <2>2. data[n] = Unloaded => file[n] \in Vals BY DEF Arrays, Maps
  <2> QED BY <2>1, <2>2, LockNamesAssumption
<1>5. Quiet BY <1>1 DEF Quiet
<1>6. Arrays' BY <1>1, <1>2, <1>3 DEF Arrays
<1> QED BY <1>4, <1>5, <1>6

--------------------------------------------------------------------------------
(* The sections, one by one.                                               *)

LEMMA HeldKeeps ==
  ASSUME Inv, NEW t \in Threads, Acquire(t) \/ HasLayer(t)
  PROVE  Inv'
<1>1. UNCHANGED <<shared, todo, calls, answer, seen>> BY DEF Acquire, HasLayer
<1>2. /\ held' \in [Threads -> {"nothing", "shared", "twice", "exclusive"}]
      /\ \A u, w \in Threads : held'[u] = "exclusive" /\ w # u => held'[w] = "nothing"
  <2>1. CASE Acquire(t) BY <2>1 DEF Acquire, CanShare, Inv, Calling
  <2>2. CASE HasLayer(t) BY <2>2 DEF HasLayer, CanShare, Inv, Calling
  <2> QED BY <2>1, <2>2
<1>3. Arrays' BY <1>1 DEF shared, Inv, Arrays, View
<1>4. Calling' BY <1>1, <1>2 DEF shared, Inv, Calling
<1>5. Listings' BY <1>1 DEF shared, Inv, Listings
<1>6. Lookups' BY <1>1 DEF shared, Inv, Lookups, Lookup, View, AnswersComeFromTheCall
<1>7. EveryArrayHasALayer' BY <1>1 DEF shared, Inv, EveryArrayHasALayer, View
<1> QED BY <1>3, <1>4, <1>5, <1>6, <1>7 DEF Inv

\* Steps that change no variable of the handle.
LEMMA SharedKeeps ==
  ASSUME Inv, UNCHANGED shared, Calling', Lookups', EveryArrayHasALayer'
  PROVE  Inv'
<1>1. Arrays' BY DEF shared, Inv, Arrays, View
<1>2. Listings' BY DEF shared, Inv, Listings
<1> QED BY <1>1, <1>2 DEF Inv

LEMMA FindKeeps ==
  ASSUME Inv, NEW t \in Threads, FindSection(t)
  PROVE  Inv'
<1> DEFINE s == todo[t][1]
<1>1. /\ todo[t] # <<>> /\ UNCHANGED shared /\ Head(todo[t]) = s /\ s.kind = "find"
      /\ s \in Section /\ s.name \in Names
  BY HeadFacts, SectionFacts DEF FindSection, Running, Inv
<1>2. /\ Quiet /\ Arrays /\ Calling /\ Lookups /\ EveryArrayHasALayer
  BY <1>1, QuietShared DEF Inv
<1>3. /\ View(s.name) \in seen[t] /\ View(s.name) \in Vals \cup {Missing}
      /\ seen[t] \in SUBSET (Vals \cup {Missing}) /\ IsFiniteSet(seen[t])
  BY <1>1, <1>2, ViewType DEF Lookups, Lookup
<1>4. CASE View(s.name) = Missing
  <2>1. Fail(t, "not found") BY <1>1, <1>4 DEF FindSection
  <2> QED BY <1>1, <1>2, <1>3, <1>4, <2>1, FailKeeps, SharedKeeps DEF Failures
<1>5. CASE View(s.name) # Missing /\ TypeOf[View(s.name)] # s.type
  <2>1. Fail(t, "wrong type") BY <1>1, <1>5 DEF FindSection
  <2> QED BY <1>1, <1>2, <2>1, FailKeeps, SharedKeeps DEF Failures
<1>6. CASE /\ View(s.name) # Missing /\ TypeOf[View(s.name)] = s.type
           /\ data[s.name] # Unloaded
  <2>1. Return(t, data[s.name]) BY <1>1, <1>6 DEF FindSection
  <2>2. data[s.name] = View(s.name) /\ data[s.name] \in Vals BY <1>3, <1>6 DEF View
  <2>3. data[s.name] \in Answers /\ data[s.name] \notin {"not found", "bad variant"}
    BY <2>2, LockNamesAssumption DEF Answers
  <2> QED BY <1>1, <1>2, <1>3, <2>1, <2>2, <2>3, ReturnKeeps, SharedKeeps
<1>7. CASE /\ View(s.name) # Missing /\ TypeOf[View(s.name)] = s.type
           /\ data[s.name] = Unloaded
  <2> DEFINE a == [s EXCEPT !.kind = "load"]
             b == [s EXCEPT !.kind = "answer"]
  <2>1. Release(t, <<a, b>>) /\ UNCHANGED <<answer, seen>> BY <1>1, <1>7 DEF FindSection
  <2>2. s \in LookupSection BY <1>1, SectionFacts
  <2>3. /\ a \in Section /\ b \in Section /\ b = [a EXCEPT !.kind = "answer"]
        /\ a.kind = "load" /\ a.name = s.name /\ a.type = s.type /\ b.kind = "answer"
    BY <2>2 DEF LookupSection, Section
  <2>4. PICK n \in Names, ty \in {s.type} : n = s.name /\ ty = s.type BY <1>1
  <2> HIDE DEF a, b
  <2>5. Well(<<a, b>>, layers') /\ <<a, b>> # <<>> /\ <<a, b>>[1] = a BY <2>3, WellLoad
  <2>6. seen' = [seen EXCEPT ![t] = seen[t]] /\ seen'[t] = seen[t]
    BY <1>2, <2>1 DEF Lookups
  <2>7. Lookup(t)'
    <3>1. todo'[t] = <<a, b>> BY <1>2, <2>1 DEF Release, Calling
    <3>2. View(n)' = View(n) BY <1>2, <2>4 DEF Quiet
    <3>3. View(n) \in seen[t] \cap Vals /\ TypeOf[View(n)] = ty BY <1>3, <1>7, <2>4
    <3> QED BY <2>3, <2>4, <2>5, <2>6, <3>1, <3>2, <3>3, LockNamesAssumption DEF Lookup
  <2>8. Calling' /\ Lookups' /\ EveryArrayHasALayer'
    BY <1>1, <1>2, <1>3, <2>1, <2>5, <2>6, <2>7, GoOnKeeps
  <2> QED BY <1>1, <2>8, SharedKeeps
<1> QED BY <1>4, <1>5, <1>6, <1>7

LEMMA LoadSectionKeeps ==
  ASSUME Inv, NEW t \in Threads, LoadSection(t)
  PROVE  Inv'
<1> DEFINE s == todo[t][1]
<1>1. /\ todo[t] # <<>> /\ Head(todo[t]) = s /\ s.kind = "load"
      /\ s \in LookupSection /\ s.name \in Names
      /\ Well(todo[t], layers)
      /\ UNCHANGED <<phase, layers, bits, m_flushed, file, header>>
  BY HeadFacts, SectionFacts DEF LoadSection, Running, Inv
<1>2. /\ Arrays /\ Calling /\ Lookups /\ EveryArrayHasALayer /\ Listings BY DEF Inv
<1>3. CASE Fail(t, "read failed") /\ UNCHANGED data
  <2>1. UNCHANGED shared BY <1>1, <1>3 DEF shared
  <2> QED BY <1>1, <1>2, <1>3, <2>1, FailKeeps, SharedKeeps DEF Failures
<1>4. CASE data' = Load(s.name) /\ Release(t, Tail(todo[t])) /\ UNCHANGED <<answer, seen>>
  <2>1. Arrays' /\ Quiet /\ data'[s.name] # Unloaded BY <1>1, <1>2, <1>4, LoadKeeps
  <2>2. Well(Tail(todo[t]), layers') BY <1>1, WellTail
  <2> DEFINE q == Tail(todo[t])
  <2>3. q # <<>> /\ q[1] = [s EXCEPT !.kind = "answer"]
    <3>1. Len(todo[t]) = 2 /\ todo[t][2] = [s EXCEPT !.kind = "answer"] /\ todo[t] \in Seq(Section)
      BY <1>1 DEF Well
    <3>2. Len(q) = 1 /\ DOMAIN q = 1 .. Len(q)
      BY <1>1, <2>2, <3>1, WellTail DEF Well
    <3>3. q[1] = todo[t][1 + 1] BY <1>1, <3>2, WellTail
    <3> HIDE DEF q
    <3>4. q # <<>> BY <3>2
    <3> QED BY <3>1, <3>3, <3>4
  <2>4. q[1].kind = "answer" /\ q[1].name = s.name /\ q[1].type = s.type
    BY <1>1, <2>3 DEF LookupSection
  <2>5. PICK n \in Names, ty \in {s.type} : n = s.name /\ ty = s.type BY <1>1
  <2>6. /\ seen' = [seen EXCEPT ![t] = seen[t]] /\ seen'[t] = seen[t]
        /\ seen[t] \in SUBSET (Vals \cup {Missing}) /\ IsFiniteSet(seen[t])
    BY <1>2, <1>4 DEF Lookups
  <2>7. Lookup(t)'
    <3>1. todo'[t] = q BY <1>2, <1>4 DEF Release, Calling
    <3>2. /\ View(n)' = View(n) /\ View(n) \in seen[t] /\ View(n) # Missing
          /\ \E v \in seen[t] \cap Vals : TypeOf[v] = ty
      BY <1>1, <1>2, <2>1, <2>5 DEF Quiet, Lookups, Lookup
    <3>3. data'[n] \in Vals
      <4>1. View(n)' = data'[n] BY <2>1, <2>5 DEF View
      <4> QED BY <1>2, <3>2, <4>1, ViewType
    <3> HIDE DEF q
    <3> QED BY <2>3, <2>4, <2>5, <2>6, <3>1, <3>2, <3>3 DEF Lookup
  <2>8. Calling' /\ Lookups' /\ EveryArrayHasALayer'
    <3> HIDE DEF q
    <3> QED BY <1>1, <1>2, <1>4, <2>1, <2>2, <2>3, <2>6, <2>7, GoOnKeeps DEF q
  <2>9. Listings' BY <1>1, <1>2 DEF Listings
  <2> QED BY <2>1, <2>8, <2>9 DEF Inv
<1> QED BY <1>1, <1>3, <1>4 DEF LoadSection

LEMMA AnswerKeeps ==
  ASSUME Inv, NEW t \in Threads, AnswerSection(t)
  PROVE  Inv'
<1> DEFINE s == todo[t][1]
<1>1. /\ todo[t] # <<>> /\ UNCHANGED shared /\ Head(todo[t]) = s /\ s.kind = "answer"
      /\ s \in Section /\ s.name \in Names
  BY HeadFacts, SectionFacts DEF AnswerSection, Running, Inv
<1>2. /\ Quiet /\ Arrays /\ Calling /\ Lookups /\ EveryArrayHasALayer
  BY <1>1, QuietShared DEF Inv
<1>3. /\ View(s.name) \in seen[t] /\ data[s.name] \in Vals
      /\ IsFiniteSet(seen[t])
  BY <1>1, <1>2 DEF Lookups, Lookup
<1>4. View(s.name) = data[s.name] BY <1>3, LockNamesAssumption DEF View
<1>5. CASE TypeOf[data[s.name]] = s.type
  <2>1. Return(t, data[s.name]) BY <1>1, <1>5 DEF AnswerSection
  <2>2. data[s.name] \in Answers /\ data[s.name] \notin {"not found", "bad variant"}
    BY <1>3, LockNamesAssumption DEF Answers
  <2> QED BY <1>1, <1>2, <1>3, <1>4, <2>1, <2>2, ReturnKeeps, SharedKeeps
<1>6. CASE TypeOf[data[s.name]] # s.type
  <2>1. Fail(t, "bad variant") BY <1>1, <1>6 DEF AnswerSection
  <2>2. PICK v \in seen[t] \cap Vals : TypeOf[v] = s.type BY <1>1, <1>2 DEF Lookups, Lookup
  <2>3. data[s.name] \in seen[t] /\ v \in seen[t] /\ v # data[s.name] BY <1>3, <1>4, <1>6, <2>2
  <2>4. Cardinality(seen[t]) > 1 BY <1>3, <2>3, TwoSeen
  <2> QED BY <1>1, <1>2, <2>1, <2>4, FailKeeps, SharedKeeps DEF Failures
<1> QED BY <1>5, <1>6

LEMMA PutKeeps ==
  ASSUME Inv, NEW t \in Threads, PutArray(t)
  PROVE  Inv'
<1>1. PICK n \in Names, v \in Vals :
        /\ todo[t] # <<>> /\ todo[t][1].kind = "put" /\ n = todo[t][1].name
        /\ data' = [data EXCEPT ![n] = v]
        /\ bits' = IF View(n) = Missing THEN [bits EXCEPT ![Base] = @ \cup {n}] ELSE bits
        /\ seen' = [u \in Threads |->
                      IF todo[u] # <<>> /\ Head(todo[u]).kind \in {"find", "load", "answer"}
                         /\ Head(todo[u]).name = n
                      THEN seen[u] \cup {v} ELSE seen[u]]
  <2> DEFINE s == todo[t][1]
  <2>1. /\ todo[t] # <<>> /\ Head(todo[t]) = s /\ s.kind = "put"
        /\ s.name \in Names /\ s.val \in Vals
    BY HeadFacts, SectionFacts DEF PutArray, Stored, Running, Inv
  <2> QED BY <2>1 DEF PutArray, Stored
<1>2. /\ Arrays /\ Calling /\ Lookups /\ EveryArrayHasALayer /\ Listings
      /\ m_flushed' = FALSE /\ UNCHANGED <<phase, layers, file, header, answer>>
      /\ Release(t, Tail(todo[t]))
      /\ phase = "open" /\ Head(todo[t]) = todo[t][1] /\ Well(todo[t], layers)
      /\ 1 \in DOMAIN todo[t]
  BY <1>1, HeadFacts DEF Inv, PutArray, Stored
<1>3. /\ Well(Tail(todo[t]), layers)
      /\ \A i \in DOMAIN Tail(todo[t]) : /\ Tail(todo[t])[i] = todo[t][i + 1]
                                         /\ i + 1 \in DOMAIN todo[t]
                                         /\ Tail(todo[t])[i].kind = "presence"
  <2>1. /\ Well(Tail(todo[t]), layers)
        /\ \A i \in DOMAIN Tail(todo[t]) : /\ Tail(todo[t])[i] = todo[t][i + 1]
                                           /\ i + 1 \in DOMAIN todo[t]
    BY <1>1, <1>2, WellTail
  <2>2. ASSUME NEW i \in DOMAIN Tail(todo[t]) PROVE Tail(todo[t])[i].kind = "presence"
    <3>1. i \in Nat \ {0} BY <2>1 DEF Well
    <3>2. todo[t][i + 1].kind = "presence" BY <1>1, <1>2, <2>1, <3>1 DEF Well
    <3> QED BY <2>1, <3>2
  <2> QED BY <2>1, <2>2
<1>4. /\ Calling' /\ todo'[t] = Tail(todo[t])
      /\ \A u \in Threads \ {t} : todo'[u] = todo[u]
  BY <1>1, <1>2, <1>3, CallingRelease
<1>5. \A m \in Names : /\ data'[m] = IF m = n THEN v ELSE data[m]
                       /\ View(m)' = IF m = n THEN v ELSE View(m)
  BY <1>1, <1>2, LockNamesAssumption DEF Arrays, View
<1>6. Arrays'
  <2>1. data' \in [Names -> Vals \cup {Unloaded, Missing}] BY <1>1, <1>2 DEF Arrays
  <2>2. \A m \in Names : data'[m] = Unloaded => file' # Absent /\ file'[m] # Missing
    BY <1>2, <1>5, LockNamesAssumption DEF Arrays
  <2> QED BY <1>2, <2>1, <2>2 DEF Arrays
<1>7. Listings' BY <1>1, <1>2, NameFacts, LockNamesAssumption DEF Listings
<1>8. Lookups'
  <2>1. ASSUME NEW u \in Threads
        PROVE  /\ seen'[u] \in SUBSET (Vals \cup {Missing}) /\ IsFiniteSet(seen'[u])
               /\ todo'[u] # <<>> => answer'[u] = "none"
               /\ Lookup(u)' /\ Returned(u)'
    <3>1. /\ seen[u] \in SUBSET (Vals \cup {Missing}) /\ IsFiniteSet(seen[u])
          /\ todo[u] # <<>> => answer[u] = "none"
          /\ Lookup(u) /\ Returned(u) /\ answer'[u] = answer[u]
      BY <1>2, LookupsByThread
    <3>2. seen'[u] = IF todo[u] # <<>> /\ Head(todo[u]).kind \in {"find", "load", "answer"}
                        /\ Head(todo[u]).name = n
                     THEN seen[u] \cup {v} ELSE seen[u]
      BY <1>1
    <3>3. seen'[u] \in SUBSET (Vals \cup {Missing}) /\ IsFiniteSet(seen'[u])
      BY <3>1, <3>2, FS_AddElement
    <3>4. CASE u = t
      <4>1. seen'[t] = {} BY <1>1, <1>2, <3>1, <3>2, <3>4 DEF Lookup
      <4>2. Lookup(t)'
        <5>1. todo'[t] # <<>> => todo'[t][1].kind = "presence"
          <6>1. Tail(todo[t]) # <<>> => 1 \in DOMAIN Tail(todo[t]) BY <1>3 DEF Well
          <6> QED BY <1>3, <1>4, <6>1
        <5> QED BY <4>1, <5>1 DEF Lookup
      <4>3. answer'[t] = "none" BY <1>1, <3>1, <3>4
      <4>4. Returned(t)' BY <4>3, LockNamesAssumption DEF Returned
      <4> QED BY <3>3, <3>4, <4>2, <4>3, <4>4
    <3>5. CASE u # t
      <4>1. todo'[u] = todo[u] BY <1>4, <3>5
      <4>2. Returned(u)' BY <3>1, <3>2, <4>1 DEF Returned
      <4>3. CASE todo[u] = <<>> BY <3>1, <3>3, <4>1, <4>2, <4>3 DEF Lookup
      <4>4. CASE todo[u] # <<>>
        <5>1. PICK s : s = todo[u][1] /\ s = Head(todo[u]) /\ s \in Section BY <1>2, <4>4, HeadFacts
        <5>2. CASE s.kind \in {"find", "load", "answer"} /\ s.name = n
          <6>1. seen'[u] = seen[u] \cup {v} BY <3>2, <4>4, <5>1, <5>2
          <6>2. View(n)' = v /\ data'[n] = v /\ v # Missing BY <1>5, LockNamesAssumption
          <6>3. Lookup(u)' BY <3>1, <4>1, <4>4, <5>1, <5>2, <6>1, <6>2 DEF Lookup
          <6> QED BY <3>1, <3>3, <4>1, <4>2, <6>3
        <5>3. CASE s.kind \in {"find", "load", "answer"} /\ s.name # n
          <6>1. seen'[u] = seen[u] BY <3>2, <5>1, <5>3
          <6>2. PICK m \in Names : m = s.name BY <5>1, <5>3, SectionFacts
          <6>3. View(m)' = View(m) /\ data'[m] = data[m] BY <1>5, <5>3, <6>2
          <6>4. Lookup(u)' BY <3>1, <4>1, <4>4, <5>1, <6>1, <6>2, <6>3, <5>3 DEF Lookup
          <6> QED BY <3>1, <3>3, <4>1, <4>2, <6>4
        <5>4. CASE s.kind \notin {"find", "load", "answer"}
          <6>1. seen'[u] = seen[u] BY <3>2, <5>1, <5>4
          <6>2. Lookup(u)' BY <3>1, <4>1, <4>4, <5>1, <6>1, <5>4 DEF Lookup
          <6> QED BY <3>1, <3>3, <4>1, <4>2, <6>2
        <5> QED BY <5>2, <5>3, <5>4
      <4> QED BY <4>3, <4>4
    <3> QED BY <3>4, <3>5
  <2>2. seen' \in [Threads -> SUBSET (Vals \cup {Missing})] BY <1>1, <2>1
  <2>3. answer' \in [Threads -> Answers] BY <1>2 DEF Lookups
  <2> QED BY <2>1, <2>2, <2>3 DEF Lookups, AnswersComeFromTheCall, Returned
<1>9. EveryArrayHasALayer'
  <2> SUFFICES ASSUME NEW k \in Keys, View(k)' # Missing
               PROVE  \/ \E l \in AllLayers : k \in bits'[l]
                      \/ \E u \in Threads : \E i \in DOMAIN todo'[u] :
                           /\ todo'[u][i].kind = "presence"
                           /\ todo'[u][i].name = k /\ todo'[u][i].present
    BY DEF EveryArrayHasALayer
  <2>1. CASE k = n /\ View(n) = Missing BY <1>1, <1>2, <2>1, NameFacts DEF Listings
  <2>2. CASE View(k) # Missing
    <3>1. CASE \E l \in AllLayers : k \in bits[l] BY <1>1, <1>2, <3>1, NameFacts DEF Listings
    <3>2. CASE \E u \in Threads : \E i \in DOMAIN todo[u] :
                 /\ todo[u][i].kind = "presence"
                 /\ todo[u][i].name = k /\ todo[u][i].present
      <4> PICK u \in Threads : \E i \in DOMAIN todo[u] :
            /\ todo[u][i].kind = "presence" /\ todo[u][i].name = k /\ todo[u][i].present
        BY <3>2
      <4>1. PICK i \in DOMAIN todo[u] :
              /\ todo[u][i].kind = "presence" /\ todo[u][i].name = k /\ todo[u][i].present
        OBVIOUS
      <4>2. CASE u # t BY <1>4, <4>1, <4>2
      <4>3. CASE u = t
        <5>1. i # 1 BY <1>1, <4>1, <4>3
        <5>2. i - 1 \in DOMAIN Tail(todo[t]) /\ Tail(todo[t])[i - 1] = todo[t][i]
          BY <1>1, <1>2, <4>1, <4>3, <5>1, TailIndex DEF Well
        <5>3. /\ i - 1 \in DOMAIN todo'[t] /\ todo'[t][i - 1].kind = "presence"
              /\ todo'[t][i - 1].name = k /\ todo'[t][i - 1].present
          BY <1>4, <4>1, <4>3, <5>2
        <5> QED BY <5>3
      <4> QED BY <4>2, <4>3
    <3> QED BY <1>2, <2>2, <3>1, <3>2 DEF EveryArrayHasALayer
  <2> QED BY <1>5, <2>1, <2>2, NameFacts
<1> QED BY <1>4, <1>6, <1>7, <1>8, <1>9 DEF Inv

LEMMA PresenceKeeps ==
  ASSUME Inv, NEW t \in Threads, SetLayerPresence(t)
  PROVE  Inv'
<1>1. PICK n \in Keys, l \in AllLayers, on \in BOOLEAN :
        /\ todo[t] # <<>> /\ todo[t][1].kind = "presence" /\ n = todo[t][1].name
        /\ l = todo[t][1].layer /\ on = todo[t][1].present
        /\ bits' = IF View(n) = Missing THEN bits
                   ELSE IF on THEN [bits EXCEPT ![l] = @ \cup {n}]
                   ELSE [bits EXCEPT ![l] = @ \ {n}]
  <2> DEFINE s == todo[t][1]
  <2>1. /\ todo[t] # <<>> /\ Head(todo[t]) = s /\ s.kind = "presence"
        /\ s.name \in Keys /\ s.layer \in AllLayers /\ s.present \in BOOLEAN
    BY HeadFacts, SectionFacts DEF SetLayerPresence, Running, Inv
  <2> QED BY <2>1 DEF SetLayerPresence
<1>2. /\ Arrays /\ Calling /\ Lookups /\ EveryArrayHasALayer /\ Listings
      /\ UNCHANGED <<phase, data, layers, m_flushed, file, header, answer, seen>>
      /\ Release(t, Tail(todo[t]))
      /\ phase = "open" /\ Head(todo[t]) = todo[t][1] /\ Well(todo[t], layers)
      /\ 1 \in DOMAIN todo[t] /\ todo[t] \in Seq(Section)
  BY <1>1, HeadFacts DEF Inv, SetLayerPresence, Well
<1>3. Well(Tail(todo[t]), layers) BY <1>1, <1>2, WellTail
<1>4. /\ Calling' /\ todo'[t] = Tail(todo[t])
      /\ \A u \in Threads \ {t} : todo'[u] = todo[u]
  BY <1>1, <1>2, <1>3, CallingRelease
<1>5. \A m \in Names : View(m)' = View(m) /\ (data[m] \in Vals => data'[m] \in Vals)
  BY <1>2 DEF View
<1>6. Arrays' BY <1>2 DEF Arrays, View
<1>7. Listings'
  <2>1. bits' \in [AllLayers -> SUBSET Names] BY <1>1, <1>2, NameFacts DEF Listings
  <2>2. on => l \in layers BY <1>1, <1>2 DEF Well
  <2>3. \A m \in Layers \ layers : bits'[m] = {} BY <1>1, <1>2, <2>2, NameFacts DEF Listings
  <2> QED BY <1>2, <2>1, <2>3 DEF Listings
<1>8. Lookups'
  <2>1. /\ answer' = [answer EXCEPT ![t] = "none"] /\ "none" \in Answers
        /\ seen' = [seen EXCEPT ![t] = {}] /\ seen'[t] = {} /\ answer'[t] = "none"
        /\ {} \in SUBSET (Vals \cup {Missing}) /\ IsFiniteSet({})
    BY <1>1, <1>2, FS_EmptySet DEF Lookups, Lookup, Answers
  <2>2. todo'[t] # <<>> => todo'[t][1].kind = "presence"
    <3> SUFFICES ASSUME Tail(todo[t]) # <<>> PROVE Tail(todo[t])[1].kind = "presence"
      BY <1>4
    <3>1. 1 \in DOMAIN Tail(todo[t]) BY <1>3 DEF Well
    <3>2. Tail(todo[t])[1] = todo[t][1 + 1] /\ 1 + 1 \in DOMAIN todo[t]
      BY <1>1, <1>2, <3>1, WellTail
    <3> QED BY <1>1, <1>2, <3>2 DEF Well
  <2>3. Lookup(t)' BY <2>1, <2>2 DEF Lookup
  <2>4. Returned(t)' BY <2>1, LockNamesAssumption DEF Returned
  <2> QED BY <1>2, <1>4, <1>5, <2>1, <2>3, <2>4, LookupsStep
<1>9. EveryArrayHasALayer'
  <2> SUFFICES ASSUME NEW k \in Keys, View(k)' # Missing
               PROVE  \/ \E m \in AllLayers : k \in bits'[m]
                      \/ \E u \in Threads : \E i \in DOMAIN todo'[u] :
                           /\ todo'[u][i].kind = "presence"
                           /\ todo'[u][i].name = k /\ todo'[u][i].present
    BY DEF EveryArrayHasALayer
  <2>1. View(k) # Missing BY <1>5, NameFacts
  <2>2. CASE k = n /\ on BY <1>1, <1>2, <2>1, <2>2, NameFacts DEF Listings
  <2>3. CASE k = n /\ ~on
    <3>1. /\ 1 + 1 \in DOMAIN todo[t] /\ todo[t][1 + 1].kind = "presence"
          /\ todo[t][1 + 1].present /\ todo[t][1 + 1].name = k
      BY <1>1, <1>2, <2>3 DEF Well
    <3> DEFINE i == 1 + 1
    <3>2. i - 1 \in DOMAIN Tail(todo[t]) /\ Tail(todo[t])[i - 1] = todo[t][i]
      BY <1>2, <3>1, TailIndex
    <3>3. /\ i - 1 \in DOMAIN todo'[t] /\ todo'[t][i - 1].kind = "presence"
          /\ todo'[t][i - 1].name = k /\ todo'[t][i - 1].present
      BY <1>4, <3>1, <3>2
    <3> QED BY <3>3
  <2>4. CASE k # n
    <3>1. CASE \E m \in AllLayers : k \in bits[m] BY <1>1, <1>2, <2>4, <3>1 DEF Listings
    <3>2. CASE \E u \in Threads : \E i \in DOMAIN todo[u] :
                 /\ todo[u][i].kind = "presence"
                 /\ todo[u][i].name = k /\ todo[u][i].present
      <4> PICK u \in Threads : \E i \in DOMAIN todo[u] :
            /\ todo[u][i].kind = "presence" /\ todo[u][i].name = k /\ todo[u][i].present
        BY <3>2
      <4>1. PICK i \in DOMAIN todo[u] :
              /\ todo[u][i].kind = "presence" /\ todo[u][i].name = k /\ todo[u][i].present
        OBVIOUS
      <4>2. CASE u # t BY <1>4, <4>1, <4>2
      <4>3. CASE u = t
        <5>1. i # 1 BY <1>1, <2>4, <4>1, <4>3
        <5>2. i - 1 \in DOMAIN Tail(todo[t]) /\ Tail(todo[t])[i - 1] = todo[t][i]
          BY <1>2, <4>1, <4>3, <5>1, TailIndex
        <5>3. /\ i - 1 \in DOMAIN todo'[t] /\ todo'[t][i - 1].kind = "presence"
              /\ todo'[t][i - 1].name = k /\ todo'[t][i - 1].present
          BY <1>4, <4>1, <4>3, <5>2
        <5> QED BY <5>3
      <4> QED BY <4>2, <4>3
    <3> QED BY <1>2, <2>1, <3>1, <3>2 DEF EveryArrayHasALayer
  <2> QED BY <2>2, <2>3, <2>4
<1> QED BY <1>4, <1>6, <1>7, <1>8, <1>9 DEF Inv

LEMMA PrefetchKeeps ==
  ASSUME Inv, NEW t \in Threads, Prefetch(t)
  PROVE  Inv'
<1> DEFINE n == todo[t][1].name
<1>1. /\ todo[t] # <<>> /\ Head(todo[t]) = todo[t][1] /\ todo[t][1].kind = "prefetch"
      /\ n \in Names
      /\ UNCHANGED <<phase, layers, bits, m_flushed, file, header>>
  BY HeadFacts, SectionFacts DEF Prefetch, Running, Inv
<1>2. /\ Arrays /\ Calling /\ Lookups /\ EveryArrayHasALayer /\ Listings /\ seen[t] = {}
  BY <1>1 DEF Inv, Lookups, Lookup
<1>3. \/ Return(t, "not found") /\ UNCHANGED data
      \/ Return(t, "none") /\ data' = Load(n)
      \/ Return(t, "read failed") /\ UNCHANGED data
  BY <1>1 DEF Prefetch
<1>4. /\ {"none", "not found", "read failed"} \subseteq Answers
      /\ {"none", "not found", "read failed"} \cap Vals = {}
  BY LockNamesAssumption DEF Answers, Failures
<1>5. Arrays' /\ Quiet
  <2>1. CASE UNCHANGED data BY <1>1, <1>2, <2>1 DEF Arrays, Quiet, View
  <2>2. CASE data' = Load(n) BY <1>1, <1>2, <2>2, LoadKeeps
  <2> QED BY <1>3, <2>1, <2>2
<1>6. Calling' /\ Lookups' /\ EveryArrayHasALayer'
  <2>1. CASE Return(t, "not found") BY <1>1, <1>2, <1>4, <1>5, <2>1, ReturnKeeps
  <2>2. CASE Return(t, "none") BY <1>1, <1>2, <1>4, <1>5, <2>2, ReturnKeeps
  <2>3. CASE Return(t, "read failed") BY <1>1, <1>2, <1>4, <1>5, <2>3, ReturnKeeps
  <2> QED BY <1>3, <2>1, <2>2, <2>3
<1>7. Listings' BY <1>1, <1>2 DEF Listings
<1> QED BY <1>5, <1>6, <1>7 DEF Inv

LEMMA CreateLayerKeeps ==
  ASSUME Inv, NEW t \in Threads, CreateLayer(t)
  PROVE  Inv'
<1> DEFINE l == todo[t][1].layer
<1>1. /\ todo[t] # <<>> /\ Head(todo[t]) = todo[t][1] /\ todo[t][1].kind = "create_layer"
      /\ l \in Layers
  BY HeadFacts, SectionFacts DEF CreateLayer, Running, Inv
<1>2. /\ Arrays /\ Calling /\ Lookups /\ EveryArrayHasALayer /\ Listings
      /\ UNCHANGED <<phase, data, file, header>> /\ Return(t, "none") /\ phase = "open"
  BY <1>1, HeadFacts DEF Inv, CreateLayer
<1>3. \/ l \in layers /\ UNCHANGED <<layers, bits, m_flushed>>
      \/ /\ l \notin layers /\ layers' = layers \cup {l}
         /\ bits' = [bits EXCEPT ![l] = {}] /\ m_flushed' = FALSE
  BY <1>1 DEF CreateLayer
<1>4. Arrays'
  <2>1. m_flushed' = m_flushed \/ m_flushed' = FALSE BY <1>3
  <2>2. \A n \in Names : View(n)' = View(n) BY <1>2 DEF View
  <2>3. [n \in Names |-> View(n)'] = [n \in Names |-> View(n)] BY <2>2
  <2>4. m_flushed' \in BOOLEAN /\ (m_flushed' => m_flushed)
    <3>1. m_flushed \in BOOLEAN BY <1>2 DEF Arrays
    <3>2. CASE m_flushed' = m_flushed BY <3>1, <3>2
    <3>3. CASE m_flushed' = FALSE BY <3>3
    <3> QED BY <2>1, <3>2, <3>3
  <2> QED BY <1>2, <2>3, <2>4 DEF Arrays
<1>5. bits' = bits
  <2>1. CASE l \in layers BY <1>3, <2>1
  <2>2. CASE l \notin layers
    <3>1. bits \in [AllLayers -> SUBSET Names] /\ bits[l] = {} BY <1>1, <1>2, <2>2 DEF Listings
    <3>2. bits' = [bits EXCEPT ![l] = {}] BY <1>3, <2>2
    <3>3. \A m \in AllLayers : bits'[m] = bits[m] BY <3>1, <3>2
    <3>4. bits' \in [AllLayers -> SUBSET Names] BY <3>1, <3>2
    <3> QED BY <3>1, <3>3, <3>4
  <2> QED BY <2>1, <2>2
<1>6. Quiet BY <1>2, <1>3, <1>5 DEF Quiet, View
<1>7. Listings' BY <1>1, <1>2, <1>3, <1>5 DEF Listings
<1>8. "none" \in Answers /\ "none" \notin Vals BY LockNamesAssumption DEF Answers
<1>9. Calling' /\ Lookups' /\ EveryArrayHasALayer' BY <1>1, <1>2, <1>6, <1>8, ReturnKeeps
<1> QED BY <1>4, <1>7, <1>9 DEF Inv

LEMMA GetLayerKeeps ==
  ASSUME Inv, NEW t \in Threads, GetLayer(t)
  PROVE  Inv'
<1>1. /\ todo[t] # <<>> /\ todo[t][1].kind = "get_layer" /\ UNCHANGED shared
      /\ Return(t, "none") \/ Return(t, "not found")
  BY HeadFacts DEF GetLayer, Running, Inv
<1>2. Quiet /\ Calling /\ Lookups /\ EveryArrayHasALayer /\ seen[t] = {}
  BY <1>1, QuietShared DEF Inv, Lookups, Lookup
<1>3. {"none", "not found"} \subseteq Answers /\ {"none", "not found"} \cap Vals = {}
  BY LockNamesAssumption DEF Answers, Failures
<1>4. CASE Return(t, "none") BY <1>1, <1>2, <1>3, <1>4, ReturnKeeps, SharedKeeps
<1>5. CASE Return(t, "not found") BY <1>1, <1>2, <1>3, <1>5, ReturnKeeps, SharedKeeps
<1> QED BY <1>1, <1>4, <1>5

\* flush_internal(): the file holds the arrays of the handle.
LEMMA FlushArrays ==
  ASSUME Arrays, phase = "open", FlushInternal, UNCHANGED data
  PROVE  /\ file' = [n \in Names |-> View(n)] /\ m_flushed'
         /\ \A n \in Names : View(n)' = View(n)
         /\ file' \in Maps
         /\ \A n \in Names : data'[n] = Unloaded => file' # Absent /\ file'[n] # Missing
<1>1. file' = [n \in Names |-> View(n)] /\ m_flushed' BY DEF FlushInternal, Arrays
<1>2. [n \in Names |-> View(n)] \in Maps BY ViewType DEF Maps
<1>3. \A n \in Names : View(n)' = View(n) BY <1>1 DEF View
<1>4. ASSUME NEW n \in Names, data'[n] = Unloaded PROVE file' # Absent /\ file'[n] # Missing
  <2>1. file' # Absent BY <1>1, <1>2, LockNamesAssumption
  <2>2. file'[n] = file[n] BY <1>1, <1>4 DEF View
  <2> QED BY <1>4, <2>1, <2>2 DEF Arrays
<1> QED BY <1>1, <1>2, <1>3, <1>4

LEMMA FlushListings ==
  ASSUME Listings, FlushInternal, UNCHANGED <<layers, bits>>, phase' # "before"
  PROVE  Listings'
<1>1. header' = header \/ header' = [layers |-> layers, bits |-> bits] BY DEF FlushInternal
<1> QED BY <1>1 DEF Listings

LEMMA FlushKeeps ==
  ASSUME Inv, NEW t \in Threads, Flush(t)
  PROVE  Inv'
<1>1. /\ todo[t] # <<>> /\ todo[t][1].kind = "flush" /\ phase = "open"
      /\ UNCHANGED <<phase, data, layers, bits>> /\ FlushInternal /\ Return(t, "none")
      /\ Arrays /\ Calling /\ Lookups /\ EveryArrayHasALayer /\ Listings
  BY HeadFacts DEF Flush, Running, Inv
<1>2. /\ file' = [n \in Names |-> View(n)] /\ m_flushed'
      /\ \A n \in Names : View(n)' = View(n)
      /\ file' \in Maps
      /\ \A n \in Names : data'[n] = Unloaded => file' # Absent /\ file'[n] # Missing
  BY <1>1, FlushArrays
<1>3. Quiet BY <1>1, <1>2 DEF Quiet
<1>4. Arrays'
  <2>1. [n \in Names |-> View(n)'] = [n \in Names |-> View(n)] BY <1>2
  <2>2. m_flushed' \in BOOLEAN BY <1>1 DEF FlushInternal, Arrays
  <2> QED BY <1>1, <1>2, <2>1, <2>2 DEF Arrays
<1>5. Listings' BY <1>1, FlushListings
<1>6. "none" \in Answers /\ "none" \notin Vals BY LockNamesAssumption DEF Answers
<1>7. Calling' /\ Lookups' /\ EveryArrayHasALayer' BY <1>1, <1>3, <1>6, ReturnKeeps
<1> QED BY <1>4, <1>5, <1>7 DEF Inv

--------------------------------------------------------------------------------
(* The calls and the life of the handle.                                   *)

\* A call begins, having seen what it looks up.
LEMMA BeginKeeps ==
  ASSUME Inv, NEW t \in Threads, NEW q, NEW names \in SUBSET Names,
         Begin(t, q, names), Well(q, layers), q # <<>>, q[1].kind \notin {"load", "answer"},
         q[1].kind = "find" => names = {q[1].name},
         q[1].kind # "find" => names = {}
  PROVE  Inv'
<1>1. /\ phase = "open" /\ todo[t] = <<>>
      /\ UNCHANGED <<phase, data, layers, bits, m_flushed, file, header, held>>
      /\ Arrays /\ Calling /\ Lookups /\ EveryArrayHasALayer /\ Listings
  BY DEF Begin, shared, Inv
<1> DEFINE w == {View(n) : n \in names}
<1>2. w \in SUBSET (Vals \cup {Missing}) /\ IsFiniteSet(w)
  <2>1. CASE names = {} BY <2>1, FS_EmptySet
  <2>2. CASE \E n \in Names : names = {n}
    <3> PICK n \in Names : names = {n} BY <2>2
    <3>1. w = {View(n)} OBVIOUS
    <3> HIDE DEF w
    <3> QED BY <1>1, <3>1, ViewType, FS_Singleton
  <2>3. names = {q[1].name} => q[1].name \in Names OBVIOUS
  <2> QED BY <2>1, <2>2, <2>3
<1>3. /\ todo'[t] = q
      /\ \A u \in Threads \ {t} : todo'[u] = todo[u]
      /\ answer' = [answer EXCEPT ![t] = "none"] /\ "none" \in Answers
      /\ seen' = [seen EXCEPT ![t] = w] /\ seen'[t] = w
  BY <1>1 DEF Begin, Calling, Lookups, Answers
<1>4. \A n \in Names : View(n)' = View(n) /\ (data[n] \in Vals => data'[n] \in Vals)
  BY <1>1 DEF View
<1>5. Arrays' BY <1>1 DEF Arrays, View
<1>6. Calling'
  <2>1. calls' \in [Threads -> Nat] BY <1>1 DEF Begin, Calling
  <2>2. \A u \in Threads : Well(todo'[u], layers') BY <1>1, <1>3 DEF Calling
  <2>3. q \in Seq(Section) BY DEF Well
  <2>4. todo' \in [Threads -> Seq(Section)] BY <1>1, <2>3 DEF Begin, Calling
  <2> QED BY <1>1, <1>3, <2>1, <2>2, <2>4 DEF Calling
<1>7. Listings' BY <1>1 DEF Listings
<1>8. Lookups'
  <2>1. Lookup(t)'
    <3>1. CASE q[1].kind = "find"
      <4>1. PICK n \in names : n = q[1].name BY <3>1
      <4>2. View(n)' \in seen'[t] BY <1>3, <1>4, <4>1
      <4> HIDE DEF w
      <4> QED BY <1>3, <3>1, <4>1, <4>2 DEF Lookup
    <3>2. CASE q[1].kind # "find"
      <4>1. w = {} BY <3>2
      <4> HIDE DEF w
      <4> QED BY <1>3, <3>2, <4>1 DEF Lookup
    <3> QED BY <3>1, <3>2
  <2>2. Returned(t)' BY <1>3 DEF Returned
  <2> HIDE DEF w
  <2> QED BY <1>1, <1>2, <1>3, <1>4, <2>1, <2>2, LookupsStep
<1>9. EveryArrayHasALayer'
  <2>1. \A i \in DOMAIN todo[t] : todo[t][i].kind # "presence" BY <1>1
  <2> QED BY <1>1, <1>3, <1>4, <2>1, ListedStep, NameFacts
<1> QED BY <1>5, <1>6, <1>7, <1>8, <1>9 DEF Inv

LEMMA CallKeeps ==
  ASSUME Inv, NEW t \in Threads, Call(t)
  PROVE  Inv'
<1>1. {} \in SUBSET Names OBVIOUS
<1>2. CASE \E n \in Keys, v \in Vals : Begin(t, <<Put(n, v)>>, {})
  <2> PICK n \in Keys, v \in Vals : Begin(t, <<Put(n, v)>>, {}) BY <1>2
  <2>1. Put(n, v) \in Section /\ Put(n, v).kind = "put" BY NameFacts, SectionTypes DEF Put
  <2> QED BY <1>1, <2>1, WellSingle, BeginKeeps
<1>3. CASE \E n \in Keys, ty \in Types : Begin(t, <<Find(n, ty, "none")>>, {n})
  <2> PICK n \in Keys, ty \in Types : Begin(t, <<Find(n, ty, "none")>>, {n}) BY <1>3
  <2>1. /\ Find(n, ty, "none") \in Section /\ Find(n, ty, "none").kind = "find"
        /\ Find(n, ty, "none").name = n /\ {n} \in SUBSET Names
    BY NameFacts, SectionTypes DEF Find
  <2> QED BY <1>1, <2>1, WellSingle, BeginKeeps
<1>4. CASE \E l \in layers, k \in Keys, v \in Vals : Begin(t, LayerPut(l, k, v), {})
  <2> PICK l \in layers, k \in Keys, v \in Vals : Begin(t, LayerPut(l, k, v), {}) BY <1>4
  <2>1. l \in Layers BY DEF Inv, Listings
  <2> QED BY <1>1, <2>1, WellLayerPut, BeginKeeps
<1>5. CASE \E l \in layers, k \in Keys, ty \in Types :
             Begin(t, LayerGet(l, k, ty), {StorageKey(l, k)})
  <2> PICK l \in layers, k \in Keys, ty \in Types : Begin(t, LayerGet(l, k, ty), {StorageKey(l, k)})
    BY <1>5
  <2> DEFINE n == StorageKey(l, k)
             e == IF Inheritance THEN k ELSE "none"
             f == Find(n, ty, e)
  <2>1. n \in Names /\ e \in Keys \cup {"none"} BY NameFacts DEF Inv, Listings
  <2>2. f \in Section /\ f.kind = "find" /\ f.name = n /\ {n} \in SUBSET Names
    BY <2>1, SectionTypes DEF Find
  <2>3. Begin(t, <<f>>, {n}) BY DEF LayerGet
  <2> HIDE DEF f, n
  <2> QED BY <1>1, <2>2, <2>3, WellSingle, BeginKeeps
<1>6. CASE \E n \in Names : Begin(t, <<[kind |-> "prefetch", name |-> n]>>, {})
  <2> PICK n \in Names : Begin(t, <<[kind |-> "prefetch", name |-> n]>>, {}) BY <1>6
  <2> QED BY <1>1, SectionTypes, WellSingle, BeginKeeps
<1>7. CASE \E l \in Layers, kind \in {"create_layer", "get_layer"} :
             Begin(t, <<[kind |-> kind, layer |-> l]>>, {})
  <2> PICK l \in Layers, kind \in {"create_layer", "get_layer"} :
             Begin(t, <<[kind |-> kind, layer |-> l]>>, {}) BY <1>7
  <2> QED BY <1>1, SectionTypes, WellSingle, BeginKeeps
<1>8. CASE Begin(t, <<[kind |-> "flush"]>>, {})
  BY <1>1, <1>8, SectionTypes, WellSingle, BeginKeeps
<1> QED BY <1>2, <1>3, <1>4, <1>5, <1>6, <1>7, <1>8 DEF Call

LEMMA OpenKeeps == ASSUME Inv, Open PROVE Inv'
<1>1. /\ phase = "before" /\ phase' = "open"
      /\ data' = [n \in Names |-> IF file = Absent \/ file[n] = Missing THEN Missing ELSE Unloaded]
      /\ layers' = header.layers /\ bits' = header.bits
      /\ UNCHANGED <<m_flushed, file, header, held, todo, calls, answer, seen>>
      /\ Arrays /\ Calling /\ Lookups /\ Listings
      /\ \A t \in Threads : todo[t] = <<>>
  BY DEF Open, Inv, Calling
<1>2. \A n \in Names : View(n)' = IF file = Absent THEN Missing ELSE file[n]
  BY <1>1, LockNamesAssumption DEF View
<1>3. Arrays'
  <2>1. data' \in [Names -> Vals \cup {Unloaded, Missing}] BY <1>1
  <2>2. \A n \in Names : data'[n] = Unloaded => file' # Absent /\ file'[n] # Missing
    BY <1>1, LockNamesAssumption
  <2>3. m_flushed' => file' = [n \in Names |-> View(n)']
    <3>1. ~m_flushed BY <1>1 DEF Arrays
    <3> QED BY <1>1, <3>1
  <2> QED BY <1>1, <2>1, <2>2, <2>3 DEF Arrays
<1>4. Calling' BY <1>1, WellEmpty DEF Calling
<1>5. Listings' BY <1>1 DEF Listings
<1>6. Lookups' BY <1>1 DEF Lookups, Lookup, AnswersComeFromTheCall
<1>7. EveryArrayHasALayer'
  <2> SUFFICES ASSUME NEW k \in Keys, View(k)' # Missing PROVE k \in bits'[Base]
    BY NameFacts DEF EveryArrayHasALayer
  <2> QED BY <1>1, <1>2, NameFacts DEF Listings
<1> QED BY <1>3, <1>4, <1>5, <1>6, <1>7 DEF Inv

LEMMA DestroyKeeps == ASSUME Inv, Destroy PROVE Inv'
<1>1. /\ phase = "open" /\ phase' = "after" /\ FlushInternal
      /\ UNCHANGED <<data, layers, bits, held, todo, calls, answer, seen>>
      /\ Arrays /\ Calling /\ Lookups /\ Listings
      /\ \A t \in Threads : todo[t] = <<>>
  BY DEF Destroy, Inv
<1>2. /\ file' \in Maps
      /\ \A n \in Names : data'[n] = Unloaded => file' # Absent /\ file'[n] # Missing
  BY <1>1, FlushArrays
<1>3. Arrays'
  <2>1. m_flushed' \in BOOLEAN BY <1>1 DEF FlushInternal, Arrays
  <2> QED BY <1>1, <1>2, <2>1 DEF Arrays
<1>4. Calling' BY <1>1, WellEmpty DEF Calling
<1>5. Listings' BY <1>1, FlushListings
<1>6. Lookups' BY <1>1 DEF Lookups, Lookup, AnswersComeFromTheCall
<1>7. EveryArrayHasALayer' BY <1>1 DEF EveryArrayHasALayer
<1> QED BY <1>3, <1>4, <1>5, <1>6, <1>7 DEF Inv

LEMMA InitInv == Init => Inv
<1> SUFFICES ASSUME Init PROVE Inv OBVIOUS
<1>1. Arrays
  <2>1. /\ phase = "before" /\ file \in Maps \cup {Absent} /\ m_flushed = FALSE
        /\ data = [n \in Names |-> Missing]
    BY DEF Init
  <2> QED BY <2>1, LockNamesAssumption DEF Arrays
<1>2. Calling BY WellEmpty DEF Init, Calling
<1>3. Listings
  <2>1. NoBits \in [AllLayers -> SUBSET Names] BY DEF NoBits
  <2>2. PICK ls \in {{}, Layers},
             b \in {IF file = Absent THEN {} ELSE {n \in Names : file[n] # Missing}} :
          header = [layers |-> ls, bits |-> [NoBits EXCEPT ![Base] = b]]
    BY DEF Init
  <2>3. b \in SUBSET Names OBVIOUS
  <2>4. header.layers = ls /\ header.bits = [NoBits EXCEPT ![Base] = b] BY <2>2
  <2>5. header.bits \in [AllLayers -> SUBSET Names] /\ header.bits[Base] = b
    BY <2>1, <2>3, <2>4, NameFacts
  <2>6. \A l \in Layers : header.bits[l] = {}
    BY <2>1, <2>4, NameFacts, LockNamesAssumption DEF NoBits
  <2>7. header \in [layers : SUBSET Layers, bits : [AllLayers -> SUBSET Names]]
    BY <2>1, <2>2, <2>3, <2>4, <2>5
  <2>8. layers \subseteq Layers /\ bits = NoBits BY DEF Init
  <2>9. \A l \in Layers : bits[l] = {} BY <2>8, NameFacts DEF NoBits
  <2> QED BY <2>1, <2>5, <2>6, <2>7, <2>8, <2>9 DEF Listings
<1>4. Lookups
  <2>1. "none" \in Answers /\ "none" \notin Vals BY LockNamesAssumption DEF Answers
  <2> QED BY <2>1, FS_EmptySet DEF Init, Lookups, Lookup, AnswersComeFromTheCall
<1>5. EveryArrayHasALayer BY DEF Init, EveryArrayHasALayer
<1> QED BY <1>1, <1>2, <1>3, <1>4, <1>5 DEF Inv

\* A step in which no thread and nobody else does anything.
LEMMA StutterKeeps == ASSUME Inv, UNCHANGED vars PROVE Inv'
<1>1. UNCHANGED <<shared, held, todo, calls, answer, seen>> BY DEF vars, shared
<1>2. Calling' BY <1>1 DEF shared, Inv, Calling
<1>3. Lookups' BY <1>1 DEF shared, Inv, Lookups, Lookup, View, AnswersComeFromTheCall
<1>4. EveryArrayHasALayer' BY <1>1 DEF shared, Inv, EveryArrayHasALayer, View
<1> QED BY <1>1, <1>2, <1>3, <1>4, SharedKeeps

LEMMA NextInv == Inv /\ [Next]_vars => Inv'
<1> SUFFICES ASSUME Inv, [Next]_vars PROVE Inv' OBVIOUS
<1>1. CASE Open BY <1>1, OpenKeeps
<1>2. CASE Destroy BY <1>2, DestroyKeeps
<1>3. ASSUME NEW t \in Threads, Call(t) PROVE Inv' BY <1>3, CallKeeps
<1>4. ASSUME NEW t \in Threads, Step(t) PROVE Inv'
  <2>1. CASE Acquire(t) \/ HasLayer(t) BY <2>1, HeldKeeps
  <2>2. CASE FindSection(t) BY <2>2, FindKeeps
  <2>3. CASE LoadSection(t) BY <2>3, LoadSectionKeeps
  <2>4. CASE AnswerSection(t) BY <2>4, AnswerKeeps
  <2>5. CASE PutArray(t) BY <2>5, PutKeeps
  <2>6. CASE SetLayerPresence(t) BY <2>6, PresenceKeeps
  <2>7. CASE Prefetch(t) BY <2>7, PrefetchKeeps
  <2>8. CASE CreateLayer(t) BY <2>8, CreateLayerKeeps
  <2>9. CASE GetLayer(t) BY <2>9, GetLayerKeeps
  <2>10. CASE Flush(t) BY <2>10, FlushKeeps
  <2> QED BY <1>4, <2>1, <2>2, <2>3, <2>4, <2>5, <2>6, <2>7, <2>8, <2>9, <2>10 DEF Step
<1>5. CASE UNCHANGED vars BY <1>5, StutterKeeps
<1> QED BY <1>1, <1>2, <1>3, <1>4, <1>5 DEF Next

LEMMA SpecInv == Spec => []Inv
BY InitInv, NextInv, PTL DEF Spec

\* m_mutex excludes, and no entry that is to be loaded has nothing in the file
\* (m_mutex, stards.h:5182; load_entry()).
THEOREM LockTypeOK == Spec => []TypeOK
<1>1. Inv => TypeOK
  <2> SUFFICES ASSUME Inv PROVE TypeOK OBVIOUS
  <2>1. Arrays /\ Calling /\ Listings /\ Lookups BY DEF Inv
  <2> QED BY <2>1 DEF TypeOK, Arrays, Calling, Listings, Lookups
<1> QED BY <1>1, SpecInv, PTL

\* Whatever other threads do between the up to three critical sections of get()
\* (7990-8021), it returns an array the name had during the call, misses the name
\* only if it was missing then, and throws bad_variant_access only if the array was
\* replaced.
THEOREM LookupsAreAnswered == Spec => []AnswersComeFromTheCall
<1>1. Inv => AnswersComeFromTheCall BY DEF Inv, Lookups
<1> QED BY <1>1, SpecInv, PTL

\* No interleaving of LayerView::put() (9379-9403), put() and create_layer() (9612)
\* leaves an array that no layer lists.
THEOREM ArraysAreListed == Spec => []EveryArrayHasALayer
<1>1. Inv => EveryArrayHasALayer BY DEF Inv
<1> QED BY <1>1, SpecInv, PTL

--------------------------------------------------------------------------------
(* The threads together behave as one caller of the catalog.               *)

Shown == IF phase = "open" THEN [n \in Names |-> View(n)] ELSE Absent

LEMMA ShownFacts ==
  ASSUME Arrays
  PROVE  phase = "open" => Shown \in Maps /\ Shown # Absent
BY ViewType, LockNamesAssumption DEF Shown, Maps

LEMMA InitCatalog == Init => C!CatInit
BY DEF Init, C!CatInit, C!Maps, Maps

LEMMA OpenCatalog == ASSUME Inv, Open PROVE C!CatNext
<1>1. /\ phase = "before" /\ phase' = "open" /\ UNCHANGED file
      /\ data' = [n \in Names |-> IF file = Absent \/ file[n] = Missing THEN Missing ELSE Unloaded]
      /\ file \in Maps \cup {Absent}
  BY DEF Open, Inv, Arrays
<1>2. \A n \in Names : View(n)' = IF file = Absent THEN Missing ELSE file[n]
  BY <1>1, LockNamesAssumption DEF View
<1>3. [n \in Names |-> View(n)'] = IF file = Absent THEN [n \in Names |-> Missing] ELSE file
  <2>1. CASE file = Absent BY <1>2, <2>1
  <2>2. CASE file # Absent
    <3>1. file = [n \in Names |-> file[n]] BY <1>1, <2>2 DEF Maps
    <3> QED BY <1>2, <2>2, <3>1
  <2> QED BY <2>1, <2>2
<1>4. C!CatOpen(Path, ReadWrite) BY <1>1, <1>3 DEF C!CatOpen, C!Opened, C!NoKeys
<1> QED BY <1>4 DEF C!CatNext

LEMMA DestroyCatalog == ASSUME Inv, Destroy PROVE C!CatNext
<1>1. /\ phase = "open" /\ phase' = "after" /\ FlushInternal /\ UNCHANGED data /\ Arrays
  BY DEF Destroy, Inv
<1>2. file' = [n \in Names |-> View(n)] BY <1>1, FlushArrays
<1>3. [n \in Names |-> View(n)] # Absent BY <1>1, ShownFacts DEF Shown
<1>4. C!CatClose BY <1>1, <1>2, <1>3 DEF C!CatClose
<1> QED BY <1>4 DEF C!CatNext

LEMMA FlushCatalog == ASSUME Inv, NEW t \in Threads, Flush(t) PROVE C!CatNext
<1>1. phase = "open" /\ phase' = phase /\ FlushInternal /\ UNCHANGED data /\ Arrays
  BY HeadFacts DEF Flush, Running, Inv
<1>2. file' = [n \in Names |-> View(n)] /\ \A n \in Names : View(n)' = View(n)
  BY <1>1, FlushArrays
<1>3. [n \in Names |-> View(n)'] = [n \in Names |-> View(n)] BY <1>2
<1>4. [n \in Names |-> View(n)] # Absent BY <1>1, ShownFacts DEF Shown
<1>5. C!CatFlush BY <1>1, <1>2, <1>3, <1>4 DEF C!CatFlush
<1> QED BY <1>5 DEF C!CatNext

LEMMA PutCatalog == ASSUME Inv, NEW t \in Threads, PutArray(t) PROVE C!CatNext
<1>1. PICK n \in Names, v \in Vals :
        /\ phase = "open" /\ phase' = phase /\ UNCHANGED file /\ Arrays
        /\ data' = [data EXCEPT ![n] = v]
  BY HeadFacts, SectionFacts DEF PutArray, Stored, Running, Inv
<1>2. \A m \in Names : View(m)' = IF m = n THEN v ELSE View(m)
  BY <1>1, LockNamesAssumption DEF Arrays, View
<1>3. [m \in Names |-> View(m)'] = [[m \in Names |-> View(m)] EXCEPT ![n] = v] BY <1>2
<1>4. [m \in Names |-> View(m)] # Absent BY <1>1, ShownFacts DEF Shown
<1>5. C!CatPut(n, v) BY <1>1, <1>3, <1>4 DEF C!CatPut
<1> QED BY <1>5 DEF C!CatNext

\* The other sections, and the beginning of a call.
LEMMA OtherCatalog ==
  ASSUME Inv, NEW t \in Threads,
         \/ Call(t) \/ Acquire(t) \/ HasLayer(t) \/ FindSection(t) \/ LoadSection(t)
         \/ AnswerSection(t) \/ SetLayerPresence(t) \/ Prefetch(t) \/ CreateLayer(t) \/ GetLayer(t)
  PROVE  UNCHANGED C!catVars
<1>1. UNCHANGED <<phase, file>> /\ Arrays /\ phase = "open"
  <2>1. Arrays /\ (todo[t] # <<>> => phase = "open") BY DEF Inv, Calling
  <2>2. CASE Call(t) BY <2>1, <2>2 DEF Call, Begin, shared
  <2>3. CASE ~Call(t)
    BY <2>1, <2>3 DEF Acquire, Waiting, HasLayer, FindSection, LoadSection, AnswerSection,
         SetLayerPresence, Prefetch, CreateLayer, GetLayer, Running, shared
  <2> QED BY <2>2, <2>3
<1>2. UNCHANGED data \/ \E n \in Names : data' = Load(n)
  <2>1. CASE Call(t) BY <2>1 DEF Call, Begin, shared
  <2>2. CASE LoadSection(t) \/ Prefetch(t)
    <3>1. Head(todo[t]).name \in Names
      BY <2>2, HeadFacts, SectionFacts DEF LoadSection, Prefetch, Running, Inv
    <3> QED BY <2>2, <3>1 DEF LoadSection, Prefetch
  <2>3. CASE ~Call(t) /\ ~LoadSection(t) /\ ~Prefetch(t)
    BY <2>3 DEF Acquire, HasLayer, FindSection, AnswerSection,
         SetLayerPresence, CreateLayer, GetLayer, shared
  <2> QED BY <2>1, <2>2, <2>3
<1>3. \A n \in Names : View(n)' = View(n)
  <2>1. CASE UNCHANGED data BY <1>1, <2>1 DEF View
  <2>2. CASE \E n \in Names : data' = Load(n)
    <3> PICK n \in Names : data' = Load(n) BY <2>2
    <3> QED BY <1>1, LoadViews
  <2> QED BY <1>2, <2>1, <2>2
<1>4. [n \in Names |-> View(n)'] = [n \in Names |-> View(n)] BY <1>3
<1> QED BY <1>1, <1>4 DEF C!catVars

\* The calls of all threads together are calls of one caller of a catalog with one
\* file: get() and prefetch() change no array, not even when another thread put one
\* between the two locks of get() (8005-8018), flush() saves what all threads put,
\* and the destructor leaves it in the file (7602).
THEOREM ThreadsRefineCatalog == Spec => RefinesCatalog
<1>1. ASSUME Inv, [Next]_vars PROVE [C!CatNext]_(C!catVars)
  <2>1. CASE Open BY <1>1, <2>1, OpenCatalog
  <2>2. CASE Destroy BY <1>1, <2>2, DestroyCatalog
  <2>3. ASSUME NEW t \in Threads, PutArray(t) PROVE C!CatNext BY <1>1, <2>3, PutCatalog
  <2>4. ASSUME NEW t \in Threads, Flush(t) PROVE C!CatNext BY <1>1, <2>4, FlushCatalog
  <2>5. ASSUME NEW t \in Threads, Call(t) \/ Step(t), ~PutArray(t), ~Flush(t)
        PROVE  UNCHANGED C!catVars
    BY <1>1, <2>5, OtherCatalog DEF Step
  <2>6. CASE UNCHANGED vars BY <2>6 DEF vars, View, C!catVars
  <2> QED BY <1>1, <2>1, <2>2, <2>3, <2>4, <2>5, <2>6 DEF Next
<1> QED BY <1>1, InitCatalog, SpecInv, PTL DEF Spec, RefinesCatalog, C!CatSpec

=================================================================================
