------------------------------ MODULE DatasetLock ------------------------------
(***************************************************************************)
(* The threads of one StarDataset handle (stards.h) and the shared_mutex   *)
(* m_mutex they take: put(), get() with its change of lock, prefetch(),    *)
(* flush(), LayerView::put() and get(), create_layer(), get_layer(), and   *)
(* the destructor, which runs when no thread uses the handle any more.     *)
(*                                                                         *)
(* A call is the list of critical sections it still has to run.  A section *)
(* acts in one step while its thread holds the mutex; between two sections *)
(* of a call the mutex is free and any other thread may come in.           *)
(***************************************************************************)
EXTENDS Naturals, Sequences, FiniteSets

CONSTANTS Threads,
          Keys,         \* array names
          Layers,       \* layers other than the base layer
          Base,         \* "__base__"
          Vals, Types,
          TypeOf,       \* element type of an array
          Unloaded,     \* data_indices[i] = SIZE_MAX
          Missing,      \* no such array
          Absent, ReadOnly, ReadWrite, \* as in StarCatalog
          Path,         \* the file of the handle
          Inheritance,  \* OpenOptions.layer_inheritance
          ReadsMayFail, \* whether load_entry() may throw
          WriterFirst,  \* the mutex lets no new reader pass a waiting writer
          MaxCalls      \* bound: the calls each thread makes

\* An array of a layer is stored under "__layer_<layer>__:<key>".  The keys of this
\* module do not spell one another's names; those of Layers may.
StorageKey(l, k) == <<l, k>>
Names == Keys \cup (Layers \X Keys)
Maps == [Names -> Vals \cup {Missing}]
AllLayers == Layers \cup {Base}

ASSUME LockNamesAssumption ==
  /\ TypeOf \in [Vals -> Types]
  /\ Unloaded \notin Vals \cup {Missing} /\ Missing \notin Vals
  /\ Keys \cap (Layers \X Keys) = {} /\ Base \notin Layers
  /\ Absent \notin Maps /\ ReadOnly # ReadWrite
  /\ {Inheritance, ReadsMayFail, WriterFirst} \subseteq BOOLEAN /\ MaxCalls \in Nat
  /\ Vals \cap {"none", "not found", "wrong type", "bad variant", "read failed"} = {}

VARIABLES phase,     \* of the handle: "before", "open", "after"
          data,      \* m_data_storage[m_hot.data_indices[i]] by name
          layers,    \* m_layer_metadata_registry, without the base layer
          bits,      \* m_layer_presence: the names whose bit is set
          m_flushed,
          file,      \* the arrays the file holds, or Absent
          header,    \* the layers and presence bitmaps the file holds
          held,      \* what each thread holds of m_mutex
          todo,      \* the critical sections each thread has yet to run
          calls,     \* the calls each thread has begun
          answer,    \* what the last call of each thread returned
          seen       \* history: the arrays a name had since the lookup of it began

shared == <<phase, data, layers, bits, m_flushed, file, header>>
vars == <<phase, data, layers, bits, m_flushed, file, header, held, todo, calls, answer, seen>>

View(n) == IF data[n] = Unloaded THEN file[n] ELSE data[n]

Failures == {"not found", "wrong type", "bad variant", "read failed"}
Answers == Vals \cup Failures \cup {"none"}

--------------------------------------------------------------------------------
(* Critical sections.  "find", "answer" and "get_layer" lock the mutex     *)
(* shared, the others exclusive.                                           *)

PutSection == [kind : {"put"}, name : Names, val : Vals]
PresenceSection == [kind : {"presence"}, layer : AllLayers, name : Keys, present : BOOLEAN]
LookupSection == [kind : {"find", "load", "answer"}, name : Names, type : Types, else : Keys \cup {"none"}]
PrefetchSection == [kind : {"prefetch"}, name : Names]
LayerSection == [kind : {"create_layer", "get_layer"}, layer : Layers]
FlushSection == [kind : {"flush"}]
Section == PutSection \cup PresenceSection \cup LookupSection \cup PrefetchSection
             \cup LayerSection \cup FlushSection

Shared(s) == s.kind \in {"find", "answer", "get_layer"}

Put(n, v) == [kind |-> "put", name |-> n, val |-> v]
Presence(l, k, on) == [kind |-> "presence", layer |-> l, name |-> k, present |-> on]
Find(n, ty, k) == [kind |-> "find", name |-> n, type |-> ty, else |-> k]

\* LayerView::put() for a layer other than the base layer.
LayerPut(l, k, v) ==
  <<Put(StorageKey(l, k), v), Presence(Base, k, FALSE), Presence(l, k, TRUE)>>

\* LayerView::get(): the array of the layer, else (with inheritance) the base array.
LayerGet(l, k, ty) == <<Find(StorageKey(l, k), ty, IF Inheritance THEN k ELSE "none")>>

--------------------------------------------------------------------------------
(* The mutex.                                                              *)

Waiting(t) == todo[t] # <<>> /\ held[t] = "nothing"

\* pthread_rwlock_rdlock: a mutex that prefers writers also waits for them to
\* leave its queue.
CanShare(t) == /\ \A u \in Threads : held[u] # "exclusive"
               /\ WriterFirst => \A u \in Threads \ {t} : ~(Waiting(u) /\ ~Shared(Head(todo[u])))

\* shared_lock and unique_lock at the start of a section.
Acquire(t) ==
  /\ Waiting(t)
  /\ IF Shared(Head(todo[t]))
     THEN CanShare(t) /\ held' = [held EXCEPT ![t] = "shared"]
     ELSE /\ \A u \in Threads : held[u] = "nothing"
          /\ held' = [held EXCEPT ![t] = "exclusive"]
  /\ UNCHANGED <<shared, todo, calls, answer, seen>>

Running(t, kind) == todo[t] # <<>> /\ held[t] # "nothing" /\ Head(todo[t]).kind = kind

\* The end of a section: the mutex is released, and the call goes on with the
\* sections of next.
Release(t, next) == /\ held' = [held EXCEPT ![t] = "nothing"]
                    /\ todo' = [todo EXCEPT ![t] = next]
                    /\ UNCHANGED calls

Return(t, a) == Release(t, <<>>) /\ answer' = [answer EXCEPT ![t] = a] /\ UNCHANGED seen

--------------------------------------------------------------------------------
(* get() and LayerView::get().                                             *)

\* What an exception of get() becomes: LayerView::get() takes every
\* runtime_error for an array the layer does not have.
Fail(t, a) ==
  LET s == Head(todo[t])
  IN IF s.else # "none" /\ a # "bad variant"
     THEN /\ Release(t, <<Find(s.else, s.type, "none")>>)
          /\ seen' = [seen EXCEPT ![t] = {View(s.else)}]
          /\ UNCHANGED answer
     ELSE Return(t, a)

\* A mutant: the element type is left to std::get.
FindUnchecked(t) ==
  /\ Running(t, "find")
  /\ LET s == Head(todo[t])
     IN IF View(s.name) = Missing THEN Fail(t, "not found")
        ELSE IF data[s.name] # Unloaded
        THEN IF TypeOf[data[s.name]] = s.type THEN Return(t, data[s.name])
             ELSE Fail(t, "bad variant")
        ELSE /\ Release(t, <<[s EXCEPT !.kind = "load"], [s EXCEPT !.kind = "answer"]>>)
             /\ UNCHANGED <<answer, seen>>
  /\ UNCHANGED shared

\* Under the shared lock: find the entry, check its type, and return it if it is
\* loaded; else give the lock up and come back with the exclusive one.
FindSection(t) ==
  /\ Running(t, "find")
  /\ LET s == Head(todo[t])
     IN IF View(s.name) = Missing THEN Fail(t, "not found")
        ELSE IF TypeOf[View(s.name)] # s.type THEN Fail(t, "wrong type")
        ELSE IF data[s.name] # Unloaded THEN Return(t, data[s.name])
        ELSE /\ Release(t, <<[s EXCEPT !.kind = "load"], [s EXCEPT !.kind = "answer"]>>)
             /\ UNCHANGED <<answer, seen>>
  /\ UNCHANGED shared

\* A mutant: what the file holds replaces what another thread put meanwhile.
LoadAgain(n) == IF file = Absent THEN data ELSE [data EXCEPT ![n] = file[n]]

\* load_entry(): nothing to do when another thread loaded or put the array.
Load(n) == IF data[n] = Unloaded THEN [data EXCEPT ![n] = file[n]] ELSE data

\* Under the exclusive lock, with the second check of data_indices.
LoadSection(t) ==
  /\ Running(t, "load")
  /\ LET n == Head(todo[t]).name
     IN \/ /\ data' = Load(n)
           /\ Release(t, Tail(todo[t]))
           /\ UNCHANGED <<answer, seen>>
        \/ ReadsMayFail /\ data[n] = Unloaded /\ Fail(t, "read failed") /\ UNCHANGED data
  /\ UNCHANGED <<phase, layers, bits, m_flushed, file, header>>

\* Under the shared lock again: std::get<NDArray<T>>, which throws when the
\* element type is another one by now.
AnswerSection(t) ==
  /\ Running(t, "answer")
  /\ LET s == Head(todo[t])
     IN IF TypeOf[data[s.name]] = s.type THEN Return(t, data[s.name]) ELSE Fail(t, "bad variant")
  /\ UNCHANGED shared

--------------------------------------------------------------------------------
(* The other sections.                                                     *)

\* A mutant: the entry of a new array is left without its data.
StoredUnindexed(n, v) == [data EXCEPT ![n] = IF @ = Missing THEN Unloaded ELSE v]
Stored(n, v) == [data EXCEPT ![n] = v]

\* put(): a new array gets a bit in the base layer.  Lookups of the name under
\* way may answer with either array.
PutArray(t) ==
  /\ Running(t, "put")
  /\ LET s == Head(todo[t])
     IN /\ data' = Stored(s.name, s.val)
        /\ bits' = IF View(s.name) = Missing
                   THEN [bits EXCEPT ![Base] = @ \cup {s.name}] ELSE bits
        /\ seen' = [u \in Threads |->
                      IF todo[u] # <<>> /\ Head(todo[u]).kind \in {"find", "load", "answer"}
                         /\ Head(todo[u]).name = s.name
                      THEN seen[u] \cup {s.val} ELSE seen[u]]
  /\ m_flushed' = FALSE
  /\ Release(t, Tail(todo[t]))
  /\ UNCHANGED <<phase, layers, file, header, answer>>

\* set_layer_presence(): only for names that are arrays, and without a word to
\* m_flushed.
SetLayerPresence(t) ==
  /\ Running(t, "presence")
  /\ LET s == Head(todo[t])
     IN bits' = IF View(s.name) = Missing THEN bits
                ELSE IF s.present THEN [bits EXCEPT ![s.layer] = @ \cup {s.name}]
                ELSE [bits EXCEPT ![s.layer] = @ \ {s.name}]
  /\ Release(t, Tail(todo[t]))
  /\ UNCHANGED <<phase, data, layers, m_flushed, file, header, answer, seen>>

\* prefetch() of one array: the lock is held over reading and decoding.
Prefetch(t) ==
  /\ Running(t, "prefetch")
  /\ LET n == Head(todo[t]).name
     IN \/ View(n) = Missing /\ Return(t, "not found") /\ UNCHANGED data
        \/ View(n) # Missing /\ Return(t, "none") /\ data' = Load(n)
        \/ ReadsMayFail /\ data[n] = Unloaded /\ Return(t, "read failed") /\ UNCHANGED data
  /\ UNCHANGED <<phase, layers, bits, m_flushed, file, header>>

\* A mutant: create_layer() without its check, as if has_layer() had been called
\* before in a section of its own.
CreateLayerUnchecked(t) ==
  /\ Running(t, "create_layer")
  /\ LET l == Head(todo[t]).layer
     IN layers' = layers \cup {l} /\ bits' = [bits EXCEPT ![l] = {}]
  /\ m_flushed' = FALSE
  /\ Return(t, "none")
  /\ UNCHANGED <<phase, data, file, header>>

\* create_layer(): an existing layer is refused.
CreateLayer(t) ==
  /\ Running(t, "create_layer")
  /\ LET l == Head(todo[t]).layer
     IN IF l \in layers THEN UNCHANGED <<layers, bits, m_flushed>>
        ELSE /\ layers' = layers \cup {l}
             /\ bits' = [bits EXCEPT ![l] = {}]
             /\ m_flushed' = FALSE
  /\ Return(t, "none")
  /\ UNCHANGED <<phase, data, file, header>>

\* A mutant: has_layer() takes the mutex exclusive.
HasLayerExclusive(t) ==
  /\ Running(t, "get_layer") /\ held[t] = "shared"
  /\ \A u \in Threads : held[u] = "nothing"
  /\ held' = [held EXCEPT ![t] = "twice"]
  /\ UNCHANGED <<shared, todo, calls, answer, seen>>

\* get_layer() holds the mutex shared while has_layer() locks it shared again.
HasLayer(t) ==
  /\ Running(t, "get_layer") /\ held[t] = "shared"
  /\ CanShare(t)
  /\ held' = [held EXCEPT ![t] = "twice"]
  /\ UNCHANGED <<shared, todo, calls, answer, seen>>

GetLayer(t) ==
  /\ Running(t, "get_layer") /\ held[t] = "twice"
  /\ Return(t, IF Head(todo[t]).layer \in layers THEN "none" ELSE "not found")
  /\ UNCHANGED shared

\* flush_internal(): nothing to do after a flush with no change since.
FlushInternal ==
  IF m_flushed THEN UNCHANGED <<file, header, m_flushed>>
  ELSE /\ file' = [n \in Names |-> View(n)]
       /\ header' = [layers |-> layers, bits |-> bits]
       /\ m_flushed' = TRUE

\* flush(), and close().
Flush(t) == /\ Running(t, "flush")
            /\ FlushInternal
            /\ Return(t, "none")
            /\ UNCHANGED <<phase, data, layers, bits>>

--------------------------------------------------------------------------------
(* The life of the handle and its calls.                                   *)

NoBits == [l \in AllLayers |-> {}]

\* A file that some earlier handle wrote, or none.
Init == /\ phase = "before"
        /\ file \in Maps \cup {Absent}
        /\ header \in {[layers |-> ls, bits |-> [NoBits EXCEPT ![Base] = b]] :
                         ls \in {{}, Layers},
                         b \in {IF file = Absent THEN {} ELSE {n \in Names : file[n] # Missing}}}
        /\ data = [n \in Names |-> Missing] /\ layers = {} /\ bits = NoBits
        /\ m_flushed = FALSE
        /\ held = [t \in Threads |-> "nothing"] /\ todo = [t \in Threads |-> <<>>]
        /\ calls = [t \in Threads |-> 0] /\ answer = [t \in Threads |-> "none"]
        /\ seen = [t \in Threads |-> {}]

\* The constructor: every array of the index is there and not loaded.
Open == /\ phase = "before" /\ phase' = "open"
        /\ data' = [n \in Names |-> IF file = Absent \/ file[n] = Missing
                                    THEN Missing ELSE Unloaded]
        /\ layers' = header.layers /\ bits' = header.bits
        /\ UNCHANGED <<m_flushed, file, header, held, todo, calls, answer, seen>>

Begin(t, sections, names) ==
  /\ phase = "open" /\ todo[t] = <<>> /\ calls[t] < MaxCalls
  /\ todo' = [todo EXCEPT ![t] = sections]
  /\ calls' = [calls EXCEPT ![t] = @ + 1]
  /\ answer' = [answer EXCEPT ![t] = "none"]
  /\ seen' = [seen EXCEPT ![t] = {View(n) : n \in names}]
  /\ UNCHANGED <<shared, held>>

Call(t) ==
  \/ \E n \in Keys, v \in Vals : Begin(t, <<Put(n, v)>>, {})
  \/ \E n \in Keys, ty \in Types : Begin(t, <<Find(n, ty, "none")>>, {n})
  \/ \E l \in layers, k \in Keys, v \in Vals : Begin(t, LayerPut(l, k, v), {})
  \/ \E l \in layers, k \in Keys, ty \in Types : Begin(t, LayerGet(l, k, ty), {StorageKey(l, k)})
  \/ \E n \in Names : Begin(t, <<[kind |-> "prefetch", name |-> n]>>, {})
  \/ \E l \in Layers, kind \in {"create_layer", "get_layer"} :
       Begin(t, <<[kind |-> kind, layer |-> l]>>, {})
  \/ Begin(t, <<[kind |-> "flush"]>>, {})

\* The destructor, after the last call of the last thread.
Destroy == /\ phase = "open" /\ phase' = "after"
           /\ \A t \in Threads : todo[t] = <<>>
           /\ FlushInternal
           /\ UNCHANGED <<data, layers, bits, held, todo, calls, answer, seen>>

Step(t) == \/ Acquire(t) \/ FindSection(t) \/ LoadSection(t) \/ AnswerSection(t)
           \/ PutArray(t) \/ SetLayerPresence(t) \/ Prefetch(t)
           \/ CreateLayer(t) \/ HasLayer(t) \/ GetLayer(t) \/ Flush(t)

Next == Open \/ Destroy \/ \E t \in Threads : Call(t) \/ Step(t)

Spec == Init /\ [][Next]_vars
\* The scheduler runs every thread, and a mutex that stays free is granted.
FairSpec == Spec /\ \A t \in Threads : WF_vars(Step(t))

--------------------------------------------------------------------------------
(* Properties.                                                             *)

\* Types.  The mutex is held by one thread exclusively or by any number shared
\* (m_mutex, stards.h:5182); a loaded entry has an array, and an entry that is not
\* loaded has one in the file, so that load_entry() never finds nothing.
TypeOK ==
  /\ phase \in {"before", "open", "after"}
  /\ data \in [Names -> Vals \cup {Unloaded, Missing}]
  /\ layers \subseteq Layers /\ bits \in [AllLayers -> SUBSET Names]
  /\ m_flushed \in BOOLEAN
  /\ file \in Maps \cup {Absent}
  /\ header \in [layers : SUBSET Layers, bits : [AllLayers -> SUBSET Names]]
  /\ held \in [Threads -> {"nothing", "shared", "twice", "exclusive"}]
  /\ \A t, u \in Threads : held[t] = "exclusive" /\ u # t => held[u] = "nothing"
  /\ \A n \in Names : data[n] = Unloaded => file # Absent /\ file[n] # Missing
  /\ todo \in [Threads -> Seq(Section)]
  /\ calls \in [Threads -> Nat]
  /\ answer \in [Threads -> Answers]
  /\ seen \in [Threads -> SUBSET (Vals \cup {Missing})]

\* The calls of all threads together behave as calls of one thread at a time on
\* the catalog: a load (get, prefetch) changes nothing, in particular it never
\* brings back an array that another thread replaced between the two locks of
\* get() (8005-8018), a flush saves what all threads put so far, and the
\* destructor leaves the arrays of the last puts in the file (7602).
C == INSTANCE StarCatalog WITH
       Keys <- Names, Paths <- {Path}, Crashes <- FALSE, file <- Path,
       view <- IF phase = "open" THEN [n \in Names |-> View(n)] ELSE Absent,
       saved <- [p \in {Path} |-> file],
       mode <- IF phase = "before" THEN ReadOnly ELSE ReadWrite
RefinesCatalog == C!CatSpec

\* get() and LayerView::get() return an array the name had at some time between
\* the lookup and the return, although they take the mutex up to three times
\* (7990-8021); they miss a name only if it was not there then, and fail with
\* bad_variant_access only if another thread replaced the array.
AnswersComeFromTheCall ==
  \A t \in Threads : todo[t] = <<>> =>
    /\ answer[t] \in Vals => answer[t] \in seen[t]
    /\ answer[t] = "not found" /\ seen[t] # {} => Missing \in seen[t]
    /\ answer[t] = "bad variant" => Cardinality(seen[t]) > 1

\* Every array is listed by some layer, whatever threads put into the base layer
\* and into others at once, and create layers: LayerView::put() (9379-9403) takes
\* the bit of the base layer away in one critical section and sets its own in the
\* next, and create_layer() clears a bitmap (9612).
EveryArrayHasALayer ==
  phase = "open" =>
    \A k \in Keys : View(k) # Missing =>
      \/ \E l \in AllLayers : k \in bits[l]
      \/ \E t \in Threads : \E i \in DOMAIN todo[t] :
           /\ todo[t][i].kind = "presence"
           /\ todo[t][i].name = k /\ todo[t][i].present

\* Every call returns: no thread waits for ever for m_mutex, not even get_layer()
\* (9584), which takes it shared while it holds it shared.
CallsReturn == \A t \in Threads : todo[t] # <<>> ~> todo[t] = <<>>

\* The destructor "writes all pending changes to disk" (7602): arrays, layers and
\* presence bitmaps.
DestructorSavesAll ==
  phase = "after" => /\ file = [n \in Names |-> View(n)]
                     /\ header = [layers |-> layers, bits |-> bits]

\* LayerView::get() goes on to the base array when its own array is "not found in
\* this layer" (9359), not when it is there and cannot be had.
FallsBackOnlyWhenMissing ==
  [][\A t \in Threads, l \in Layers, k \in Keys :
       (/\ todo[t] # <<>> /\ Head(todo[t]).kind \in {"find", "load"}
        /\ Head(todo[t]).name = StorageKey(l, k)
        /\ todo'[t] # <<>> /\ Head(todo'[t]).kind = "find" /\ Head(todo'[t]).name = k)
       => View(StorageKey(l, k)) = Missing]_vars

================================================================================
