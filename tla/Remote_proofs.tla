------------------------------ MODULE Remote_proofs ------------------------------
(***************************************************************************)
(* Proofs about Remote, for any versions of the object, any sizes and any  *)
(* faults of the store.  Inv ties the reader to the history: what a reader *)
(* caches or maps was stored since it was made and since the last flush,   *)
(* and only a reader reads.                                                *)
(***************************************************************************)
EXTENDS Remote, TLAPS

Reads == {"open", "header", "read"}
Stages == {"create", "whole", "range"}

Calling == /\ call = NoCall \/ call \in Calls
           /\ call.op = "put" => phase = "open" /\ kind = "s3"
           /\ call.op = "read" => phase = "open"
           /\ call.op \in Reads /\ call.stage # "create" => m_reader
Reading == /\ object \in since
           /\ m_map_size > 0 => kind = "local" /\ object # Absent

Inv == TypeOK /\ CacheIsTheObject /\ Calling /\ Reading

Contents == Seq((Versions \cup {Page}) \X Nat)

--------------------------------------------------------------------------------
(* Bytes.                                                                  *)

LEMMA BytesFacts ==
  ASSUME NEW v \in Versions \cup {Page}, NEW from \in Nat, NEW len \in Nat
  PROVE  /\ Bytes(v, from, len) \in Contents
         /\ Len(Bytes(v, from, len)) = len
         /\ \A i \in 1 .. len : Bytes(v, from, len)[i] = <<v, from + i - 1>>
  <1>1. \A i \in 1 .. len : from + i - 1 \in Nat OBVIOUS
  <1>2. Bytes(v, from, len) \in [1 .. len -> (Versions \cup {Page}) \X Nat] BY <1>1 DEF Bytes
  <1> QED BY <1>2 DEF Bytes, Contents

\* What serve_from_cache() and the mapping return of a buffer that holds a version
\* from its start: the bytes at the offset asked for, as many as there are.
LEMMA ServedInPlace ==
  ASSUME NEW v \in Versions \cup {Page}, NEW n \in Nat, NEW from \in Nat, NEW len \in Nat
  PROVE  \/ Serve(Bytes(v, 0, n), from, len) = <<>>
         \/ \E k \in Nat : Serve(Bytes(v, 0, n), from, len) = Bytes(v, from, k) /\ k > 0
  <1> DEFINE buf == Bytes(v, 0, n)
  <1>1. buf \in Contents /\ Len(buf) = n /\ \A i \in 1 .. n : buf[i] = <<v, i - 1>>
    <2>1. \A i \in 1 .. n : 0 + i - 1 = i - 1 OBVIOUS
    <2>2. \A i \in 1 .. n : buf[i] = <<v, 0 + i - 1>> BY BytesFacts
    <2> QED BY <2>1, <2>2, BytesFacts
  <1> HIDE DEF buf
  <1>2. CASE from >= n \/ len = 0
    <2>1. CASE from >= n BY <1>1, <2>1 DEF Serve, buf
    <2>2. CASE from < n /\ len = 0
      <3>1. Serve(buf, from, len) = SubSeq(buf, from + 1, from) BY <1>1, <2>2 DEF Serve, Lower
      <3>2. SubSeq(buf, from + 1, from) = <<>> BY <1>1, <2>2 DEF Contents
      <3> QED BY <3>1, <3>2 DEF buf
    <2> QED BY <1>2, <2>1, <2>2
  <1>3. CASE from < n /\ len > 0
    <2> DEFINE k == Lower(len, n - from)
    <2>1. k \in Nat /\ k > 0 /\ from + k <= n BY <1>3 DEF Lower
    <2>2. Serve(buf, from, len) = SubSeq(buf, from + 1, from + k)
      <3>1. ~(from >= Len(buf)) /\ Len(buf) - from = n - from BY <1>1, <1>3
      <3> QED BY <3>1 DEF Serve
    <2> HIDE DEF k
    <2>3. /\ SubSeq(buf, from + 1, from + k) = [i \in 1 .. k |-> buf[from + i]]
      BY <1>1, <2>1 DEF Contents
    <2>4. \A i \in 1 .. k : buf[from + i] = <<v, from + i - 1>> BY <1>1, <2>1
    <2>5. SubSeq(buf, from + 1, from + k) = Bytes(v, from, k) BY <2>3, <2>4 DEF Bytes
    <2> QED BY <2>1, <2>2, <2>5 DEF buf
  <1> QED BY <1>2, <1>3

LEMMA ServedContents ==
  ASSUME NEW buf \in Contents, NEW from \in Nat, NEW len \in Nat
  PROVE  Serve(buf, from, len) \in Contents
  <1>1. CASE from >= Len(buf) BY <1>1 DEF Serve, Contents
  <1>2. CASE from < Len(buf)
    <2>1. Len(buf) \in Nat BY DEF Contents
    <2>2. Lower(len, Len(buf) - from) \in Nat /\ from + Lower(len, Len(buf) - from) <= Len(buf)
      BY <1>2, <2>1 DEF Lower
    <2> QED BY <1>2, <2>1, <2>2 DEF Serve, Contents
  <1> QED BY <1>1, <1>2 DEF Contents

--------------------------------------------------------------------------------
(* Answers of the store.                                                   *)

Whole(v) == Bytes(v, 0, Size[v])

LEMMA AnswerFacts ==
  ASSUME TypeOK, kind # "local", NEW region \in Regions, NEW from \in Nat, NEW len \in Nat,
         NEW a \in GetAnswers(region, from, len)
  PROVE  /\ a.body \in Contents /\ a.region \in Regions \cup {Absent}
         /\ Success(a.status) =>
              /\ object \in Versions
              /\ \/ /\ from < Size[object] /\ a.total = Size[object]
                    /\ a.body = Bytes(object, from, Lower(len, Size[object] - from))
                 \/ kind # "s3" /\ a.total = NoTotal /\ a.body = Whole(object)
  <1> USE RemoteAssumption DEF TypeOK
  <1>1. PageBody \in Contents BY BytesFacts DEF PageBody
  <1>2. <<>> \in Contents BY DEF Contents
  <1>3. CASE a = Answer(0, <<>>, NoTotal, Absent) BY <1>2, <1>3 DEF Answer, Success
  <1>4. CASE \E st \in {503, 403, 404, 416} : a = Error(st)
    BY <1>1, <1>4 DEF Error, Answer, Success
  <1>5. CASE \E r \in {home, Absent} : a = Answer(301, PageBody, NoTotal, r)
    BY <1>1, <1>5 DEF Answer, Success
  <1>6. CASE /\ object \in Versions /\ from < Size[object]
             /\ a = Answer(206, Bytes(object, from, Lower(len, Size[object] - from)),
                           Size[object], Absent)
    <2>1. Size[object] \in Nat /\ Lower(len, Size[object] - from) \in Nat BY <1>6 DEF Lower
    <2>2. Bytes(object, from, Lower(len, Size[object] - from)) \in Contents BY <1>6, <2>1, BytesFacts
    <2> QED BY <1>6, <2>2 DEF Answer
  <1>7. CASE /\ object \in Versions /\ kind # "s3"
             /\ a = Answer(200, Bytes(object, 0, Size[object]), NoTotal, Absent)
    <2>1. Size[object] \in Nat BY <1>7
    <2>2. Bytes(object, 0, Size[object]) \in Contents BY <1>7, <2>1, BytesFacts
    <2> QED BY <1>7, <2>2 DEF Answer, Whole
  <1>8. object \in Versions \/ object = Absent OBVIOUS
  <1>9. object \in Versions => Size[object] \in Nat OBVIOUS
  <1> QED BY <1>3, <1>4, <1>5, <1>6, <1>7, <1>8, <1>9 DEF GetAnswers

\* What is kept of an answer to the request for the first bytes is the object.
LEMMA KeptIsWhole ==
  ASSUME TypeOK, kind # "local", kind # "http", NEW region \in Regions,
         NEW a \in GetAnswers(region, 0, Threshold), Taken(a), IsWhole(a)
  PROVE  object \in Versions /\ a.body = Whole(object)
  <1>1. Success(a.status) BY DEF Taken
  <1>2. Threshold \in Nat /\ 0 \in Nat BY RemoteAssumption
  <1>3. /\ object \in Versions
        /\ \/ /\ 0 < Size[object] /\ a.total = Size[object]
              /\ a.body = Bytes(object, 0, Lower(Threshold, Size[object] - 0))
           \/ a.body = Whole(object)
    BY <1>1, <1>2, AnswerFacts
  <1>4. Size[object] \in Nat /\ Size[object] - 0 = Size[object] BY <1>3, RemoteAssumption
  <1>5. CASE a.body = Bytes(object, 0, Lower(Threshold, Size[object])) /\ a.total = Size[object]
    <2>1. Lower(Threshold, Size[object]) \in Nat BY <1>2, <1>4 DEF Lower
    <2>2. Len(a.body) = Lower(Threshold, Size[object]) BY <1>3, <1>5, <2>1, BytesFacts
    <2>3. Lower(Threshold, Size[object]) = Size[object]
      BY <1>2, <1>4, <1>5, <2>2 DEF Lower, IsWhole
    <2> QED BY <1>3, <1>5, <2>3 DEF Whole
  <1> QED BY <1>3, <1>4, <1>5

--------------------------------------------------------------------------------
(* Steps of a call.                                                        *)

LEMMA CallFacts ==
  ASSUME Inv, call.op \in Reads
  PROVE  /\ call \in [op : Reads, from : Nat, len : Nat, stage : Stages, attempt : {0, 1}]
         /\ call # NoCall /\ phase \in {"opening", "open", "closed"}
  BY DEF Inv, Calling, Calls, Reads, Stages, NoCall, TypeOK

LEMMA ReadIsCall ==
  ASSUME m_reader \in BOOLEAN, NEW op \in Reads, NEW from \in Nat, NEW len \in Nat
  PROVE  /\ Read(op, from, len) \in Calls /\ Read(op, from, len).op = op
         /\ Read(op, from, len) # NoCall
         /\ Read(op, from, len).stage # "create" => m_reader
  BY DEF Read, Calls, Reads, NoCall

\* The bytes of a read, of whatever origin, leave the handle in order.
LEMMA AfterKeeps ==
  ASSUME Inv, call.op \in Reads, call.stage # "create", NEW bytes \in Contents, After(bytes)
  PROVE  /\ phase' \in {"closed", "opening", "open"} /\ index' \in Versions \cup {Absent, Nothing}
         /\ \/ call' = NoCall /\ phase' # "opening"
            \/ /\ call' \in Calls /\ call'.op = "header" /\ m_reader
               /\ call' # NoCall
         /\ out' = out \/ (out' = [from |-> call.from, bytes |-> bytes] /\ Len(bytes) = call.len)
  <1> USE RemoteAssumption
  <1>1. m_reader /\ m_reader \in BOOLEAN BY DEF Inv, Calling, TypeOK
  <1>2. CASE call.op = "read"
    <2>1. phase = "open" BY <1>2 DEF Inv, Calling
    <2> QED BY <1>2, <2>1 DEF After, Accept, Inv, TypeOK
  <1>3. CASE call.op # "read"
    <2>1. LoadIndex(bytes) /\ UNCHANGED out BY <1>3 DEF After
    <2>2. bytes # <<>> => bytes[1][1] \in Versions \cup {Page} BY DEF Contents
    <2>3. CASE call' = NoCall /\ index' = Absent /\ phase' \in {"closed", "open"}
      BY <2>1, <2>3
    <2>4. CASE call' = NoCall /\ index' = Nothing /\ phase' = "closed" BY <2>1, <2>4
    <2>5. CASE /\ bytes # <<>> /\ bytes[1][1] # Page /\ UNCHANGED <<phase, index>>
               /\ call' = Read("header", 0, HeaderSize[bytes[1][1]])
      <3>1. HeaderSize[bytes[1][1]] \in Nat BY <2>2, <2>5
      <3> QED BY <1>1, <2>1, <2>5, <3>1, ReadIsCall, SMTT(30) DEF Reads, Inv, TypeOK
    <2>6. CASE call' = NoCall /\ \E p \in Parsed(bytes) : phase' = p[1] /\ index' = p[2]
      <3>1. \A p \in Parsed(bytes) : p[1] \in {"open", "closed"} /\ p[2] \in Versions \cup {Nothing}
        BY <2>2 DEF Parsed
      <3> QED BY <2>1, <2>6, <3>1
    <2>7. Len(bytes) \in Nat /\ (Len(bytes) >= MinHeader => bytes # <<>>) BY DEF Contents
    <2> QED BY <2>1, <2>3, <2>4, <2>5, <2>6, <2>7 DEF LoadIndex
  <1> QED BY <1>2, <1>3

LEMMA NoCallHasNoOp == NoCall.op = "none" /\ NoCall \notin Calls
  BY DEF NoCall, Calls

LEMMA CreateReaderKeeps == ASSUME Inv, CreateReader PROVE Inv'
  <1> USE RemoteAssumption
  <1>1. /\ call.op \in Reads /\ call.stage = "create"
        /\ m_reader' = TRUE /\ m_region' = PathRegion /\ m_cached' = FALSE /\ m_whole' = <<>>
        /\ m_map_size' = IF kind = "local" /\ object # Absent THEN Size[object] ELSE 0
        /\ since' = {object} /\ UNCHANGED <<object, home, phase, kind, creds, index, out>>
    BY DEF CreateReader, Reads, store
  <1>2. /\ call' \in [op : Reads, from : Nat, len : Nat, stage : Stages, attempt : {0, 1}]
        /\ call'.op = call.op /\ call' \in Calls
    <2>1. call \in [op : Reads, from : Nat, len : Nat, stage : Stages, attempt : {0, 1}]
      BY <1>1, CallFacts
    <2> QED BY <2>1 DEF CreateReader, Calls, Reads, Stages
  <1>3. m_map_size' \in Nat BY <1>1 DEF Inv, TypeOK
  <1>4. m_whole' \in Contents BY <1>1 DEF Contents
  <1>5. phase = "opening" => call'.op \in {"open", "header"} BY <1>2 DEF Inv, TypeOK
  <1>6. TypeOK' BY <1>1, <1>2, <1>3, <1>4, <1>5 DEF Inv, TypeOK, Contents
  <1>7. Calling' BY <1>1, <1>2 DEF Inv, Calling, Reads
  <1> QED BY <1>1, <1>6, <1>7 DEF Inv, CacheIsTheObject, Reading

\* What a step of a read leaves in order, given what it does to the reader.
LEMMA ReadStepKeeps ==
  ASSUME Inv, call.op \in Reads, call.stage # "create", NEW bytes \in Contents, After(bytes),
         UNCHANGED <<store, kind, creds, m_reader, m_cached, m_whole, m_map_size, since>>,
         m_region' \in Regions
  PROVE  Inv'
  <1>1. /\ phase' \in {"closed", "opening", "open"} /\ index' \in Versions \cup {Absent, Nothing}
        /\ \/ call' = NoCall /\ phase' # "opening"
           \/ call' \in Calls /\ call'.op = "header" /\ m_reader /\ call' # NoCall
    BY AfterKeeps
  <1>2. TypeOK' BY <1>1 DEF Inv, TypeOK, store
  <1>3. Calling' BY <1>1, NoCallHasNoOp DEF Calling, Reads
  <1> QED BY <1>2, <1>3 DEF Inv, CacheIsTheObject, Reading, store

\* The bytes of a read that needs no request.
LEMMA LocalBytes ==
  ASSUME Inv, ReadWithoutRequest
  PROVE  \E bytes \in Contents :
           /\ After(bytes)
           /\ bytes # <<>> /\ kind # "http" =>
                \E v \in since \cap Versions : \E k \in Nat : bytes = Bytes(v, call.from, k)
  <1> USE RemoteAssumption
  <1>1. /\ call.op \in Reads /\ call.stage = "range" /\ (m_cached \/ kind = "local")
        /\ m_reader /\ call.from \in Nat /\ call.len \in Nat
    <2>1. call.op \in Reads /\ call.stage = "range" /\ (m_cached \/ kind = "local")
      BY DEF ReadWithoutRequest, Reads
    <2> QED BY <2>1, CallFacts DEF Inv, Calling
  <1>2. CASE m_cached
    <2>1. After(Serve(m_whole, call.from, call.len)) BY <1>2 DEF ReadWithoutRequest
    <2>2. Serve(m_whole, call.from, call.len) \in Contents
      BY <1>1, ServedContents DEF Inv, TypeOK, Contents
    <2>3. ASSUME kind # "http", Serve(m_whole, call.from, call.len) # <<>>
          PROVE  \E v \in since \cap Versions : \E k \in Nat : Serve(m_whole, call.from, call.len) = Bytes(v, call.from, k)
      <3>1. PICK v \in since \ {Absent} : m_whole = Bytes(v, 0, Size[v])
        BY <1>2, <2>3 DEF Inv, CacheIsTheObject
      <3>2. v \in Versions /\ Size[v] \in Nat BY DEF Inv, TypeOK
      <3> QED BY <1>1, <2>3, <3>1, <3>2, ServedInPlace
    <2> QED BY <2>1, <2>2, <2>3
  <1>3. CASE ~m_cached /\ m_map_size = 0
    <2>1. After(<<>>) BY <1>3 DEF ReadWithoutRequest
    <2>2. <<>> \in Contents BY DEF Contents
    <2> QED BY <2>1, <2>2
  <1>4. CASE ~m_cached /\ m_map_size # 0
    <2>1. m_map_size \in Nat /\ object \in Versions /\ object \in since
      BY <1>1, <1>4 DEF Inv, TypeOK, Reading
    <2>2. After(Serve(Bytes(object, 0, m_map_size), call.from, call.len))
      BY <1>4 DEF ReadWithoutRequest
    <2>3. Serve(Bytes(object, 0, m_map_size), call.from, call.len) \in Contents
      BY <1>1, <2>1, BytesFacts, ServedContents
    <2>4. \/ Serve(Bytes(object, 0, m_map_size), call.from, call.len) = <<>>
          \/ \E k \in Nat : Serve(Bytes(object, 0, m_map_size), call.from, call.len)
                             = Bytes(object, call.from, k)
      BY <1>1, <2>1, ServedInPlace
    <2> QED BY <2>1, <2>2, <2>3, <2>4
  <1> QED BY <1>2, <1>3, <1>4

LEMMA ReadWithoutRequestKeeps == ASSUME Inv, ReadWithoutRequest PROVE Inv'
  <1>1. PICK bytes \in Contents : After(bytes) BY LocalBytes
  <1>2. /\ call.op \in Reads /\ call.stage # "create" /\ m_region' \in Regions
        /\ UNCHANGED <<store, kind, creds, m_reader, m_cached, m_whole, m_map_size, since>>
    BY DEF ReadWithoutRequest, Reads, reader, Inv, TypeOK
  <1> QED BY <1>1, <1>2, ReadStepKeeps

\* What one GET for a range asks for, and what its answer does.
Answered(from, len, a) ==
  /\ m_region' \in Regions
  /\ \/ /\ call' = [call EXCEPT !.attempt = 1]
        /\ UNCHANGED <<phase, index, out, m_cached, m_whole>>
     \/ /\ from = 0 /\ len = Threshold /\ call.stage = "whole"
        /\ m_cached' = (Taken(a) /\ IsWhole(a))
        /\ m_whole' = IF m_cached' THEN a.body ELSE <<>>
        /\ call' = [call EXCEPT !.stage = "range", !.attempt = 0]
        /\ UNCHANGED <<phase, index, out>>
     \/ /\ from = call.from /\ len = call.len
        /\ After(IF Taken(a) THEN a.body ELSE <<>>)
        /\ UNCHANGED <<m_cached, m_whole>>

LEMMA GetCases ==
  ASSUME Inv, Get
  PROVE  \E from, len \in Nat : \E a \in GetAnswers(m_region, from, len) : Answered(from, len, a)
  <1>1. /\ call.op \in Reads /\ call.stage \in {"whole", "range"} /\ kind # "local"
        /\ call.from \in Nat /\ call.len \in Nat /\ Threshold \in Nat /\ 0 \in Nat
    <2>1. call.op \in Reads /\ call.stage \in {"whole", "range"} /\ kind # "local"
      BY DEF Get, Reads
    <2> QED BY <2>1, CallFacts, RemoteAssumption
  <1>2. \A from, len \in Nat : \A a \in GetAnswers(m_region, from, len) : Followed(a) \in Regions
    <2> TAKE from, len \in Nat
    <2> TAKE a \in GetAnswers(m_region, from, len)
    <2>1. a.region \in Regions \cup {Absent} BY <1>1, AnswerFacts DEF Inv, TypeOK
    <2> QED BY <2>1 DEF Followed, Redirected, Inv, TypeOK
  <1>3. CASE call.stage = "whole"
    <2>1. PICK a \in GetAnswers(m_region, 0, Threshold) :
            /\ m_region' = Followed(a)
            /\ IF Redirected(a)
               THEN /\ call' = [call EXCEPT !.attempt = 1]
                    /\ UNCHANGED <<phase, index, out, m_cached, m_whole>>
               ELSE /\ m_cached' = (Taken(a) /\ IsWhole(a))
                    /\ m_whole' = IF m_cached' THEN a.body ELSE <<>>
                    /\ call' = [call EXCEPT !.stage = "range", !.attempt = 0]
                    /\ UNCHANGED <<phase, index, out>>
      BY <1>3 DEF Get
    <2>2. Answered(0, Threshold, a) BY <1>1, <1>2, <1>3, <2>1 DEF Answered
    <2> QED BY <1>1, <2>2
  <1>4. CASE call.stage = "range"
    <2>1. PICK a \in GetAnswers(m_region, call.from, call.len) :
            /\ m_region' = Followed(a)
            /\ IF Redirected(a)
               THEN /\ call' = [call EXCEPT !.attempt = 1]
                    /\ UNCHANGED <<phase, index, out, m_cached, m_whole>>
               ELSE /\ After(IF Taken(a) THEN a.body ELSE <<>>)
                    /\ UNCHANGED <<m_cached, m_whole>>
      BY <1>4 DEF Get
    <2>2. Answered(call.from, call.len, a) BY <1>1, <1>2, <2>1 DEF Answered
    <2> QED BY <1>1, <2>2
  <1> QED BY <1>1, <1>3, <1>4

LEMMA GetKeeps == ASSUME Inv, Get PROVE Inv'
  <1> USE RemoteAssumption
  <1>1. /\ call.op \in Reads /\ call.stage # "create" /\ kind # "local" /\ m_reader
        /\ call.stage \in {"whole", "range"} /\ m_map_size = 0
        /\ UNCHANGED <<object, home, kind, creds, m_reader, m_map_size, since>>
    <2>1. /\ call.op \in Reads /\ call.stage \in {"whole", "range"} /\ kind # "local"
          /\ UNCHANGED <<object, home, kind, creds, m_reader, m_map_size, since>>
      BY DEF Get, Reads, store
    <2> QED BY <2>1 DEF Inv, Calling, Reading, TypeOK
  <1>2. PICK from \in Nat, len \in Nat : \E a \in GetAnswers(m_region, from, len) : Answered(from, len, a)
    BY GetCases
  <1>3. PICK a \in GetAnswers(m_region, from, len) : Answered(from, len, a) BY <1>2
  <1>0. m_region' \in Regions BY <1>3 DEF Answered
  <1>4. a.body \in Contents /\ <<>> \in Contents
    <2>1. m_region \in Regions /\ TypeOK BY DEF Inv, TypeOK
    <2>2. a.body \in Contents BY <1>1, <2>1, AnswerFacts
    <2> QED BY <2>2 DEF Contents
  <1>5. call \in [op : Reads, from : Nat, len : Nat, stage : Stages, attempt : {0, 1}]
    BY <1>1, CallFacts
  <1>6. CASE After(IF Taken(a) THEN a.body ELSE <<>>) /\ UNCHANGED <<m_cached, m_whole>>
    BY <1>0, <1>1, <1>4, <1>6, ReadStepKeeps DEF store
  <1>7. ASSUME call' \in [op : Reads, from : Nat, len : Nat, stage : Stages, attempt : {0, 1}],
               call'.op = call.op, UNCHANGED <<phase, index, out>>,
               m_cached' \in BOOLEAN, m_whole' \in Contents, CacheIsTheObject'
        PROVE  Inv'
    <2>1. call' \in Calls BY <1>7 DEF Calls, Reads, Stages
    <2>2. phase = "opening" => call'.op \in {"open", "header"} BY <1>7 DEF Inv, TypeOK
    <2>3. TypeOK' BY <1>0, <1>1, <1>7, <2>1, <2>2 DEF Inv, TypeOK, Contents
    <2>4. Calling' BY <1>1, <1>7, <2>1 DEF Inv, Calling, Reads
    <2> QED BY <1>1, <1>7, <2>3, <2>4 DEF Inv, Reading
  <1>8. CASE /\ call' = [call EXCEPT !.attempt = 1]
             /\ UNCHANGED <<phase, index, out, m_cached, m_whole>>
    <2>1. /\ call' \in [op : Reads, from : Nat, len : Nat, stage : Stages, attempt : {0, 1}]
          /\ call'.op = call.op
      BY <1>5, <1>8
    <2>2. m_cached' \in BOOLEAN /\ m_whole' \in Contents /\ CacheIsTheObject'
      BY <1>1, <1>8 DEF Inv, TypeOK, CacheIsTheObject, Contents
    <2> QED BY <1>7, <1>8, <2>1, <2>2
  <1>9. CASE /\ from = 0 /\ len = Threshold
             /\ m_cached' = (Taken(a) /\ IsWhole(a))
             /\ m_whole' = IF m_cached' THEN a.body ELSE <<>>
             /\ call' = [call EXCEPT !.stage = "range", !.attempt = 0]
             /\ UNCHANGED <<phase, index, out>>
    <2>1. /\ call' \in [op : Reads, from : Nat, len : Nat, stage : Stages, attempt : {0, 1}]
          /\ call'.op = call.op
      BY <1>5, <1>9 DEF Stages
    <2>2. m_cached' \in BOOLEAN BY <1>9 DEF Taken, IsWhole
    <2>3. m_whole' \in Contents BY <1>4, <1>9
    <2>4. CacheIsTheObject'
      <3> SUFFICES ASSUME m_cached', kind # "http"
                   PROVE  \E v \in since \ {Absent} : m_whole' = Bytes(v, 0, Size[v])
        BY <1>1 DEF CacheIsTheObject
      <3>1. m_region \in Regions /\ TypeOK /\ Taken(a) /\ IsWhole(a) BY <1>9 DEF Inv, TypeOK
      <3>2. object \in Versions /\ a.body = Whole(object) BY <1>1, <1>9, <3>1, KeptIsWhole
      <3>3. object \in since /\ object # Absent BY <1>1, <3>2 DEF Inv, Reading
      <3> QED BY <1>9, <3>2, <3>3 DEF Whole
    <2> QED BY <1>7, <1>9, <2>1, <2>2, <2>3, <2>4
  <1> QED BY <1>3, <1>6, <1>8, <1>9 DEF Answered

LEMMA PutAnswerFacts ==
  ASSUME Inv, NEW region \in Regions, NEW a \in PutAnswers(region)
  PROVE  /\ a.stored \in BOOLEAN /\ a.region \in Regions \cup {Absent}
         /\ PutDone(a) => a.stored
         /\ a.status = 301 => ~a.stored
  <1>1. home \in Regions BY DEF Inv, TypeOK
  <1>2. (region = home /\ creds # "expired") \in BOOLEAN OBVIOUS
  <1>3. \/ \E s \in BOOLEAN : a = [status |-> 0, region |-> Absent, stored |-> s]
        \/ \E st \in {503, 403} : a = [status |-> st, region |-> Absent, stored |-> FALSE]
        \/ \E r \in {home, Absent} : a = [status |-> 301, region |-> r, stored |-> FALSE]
        \/ a = [status |-> 200, region |-> Absent, stored |-> TRUE]
    BY <1>2, ZenonT(40) DEF PutAnswers
  <1>4. CASE \E s \in BOOLEAN : a = [status |-> 0, region |-> Absent, stored |-> s]
    BY <1>4 DEF PutDone, Success
  <1>5. CASE \E st \in {503, 403} : a = [status |-> st, region |-> Absent, stored |-> FALSE]
    BY <1>5 DEF PutDone, Success
  <1>6. CASE \E r \in {home, Absent} : a = [status |-> 301, region |-> r, stored |-> FALSE]
    BY <1>1, <1>6 DEF PutDone, Success
  <1>7. CASE a = [status |-> 200, region |-> Absent, stored |-> TRUE]
    BY <1>7 DEF PutDone, Success
  <1> QED BY <1>3, <1>4, <1>5, <1>6, <1>7

LEMMA DropReaderFacts ==
  ASSUME DropReader
  PROVE  /\ m_reader' = FALSE /\ m_region' \in Regions /\ m_cached' = FALSE
         /\ m_whole' \in Contents /\ m_map_size' = 0
  BY RemoteAssumption DEF DropReader, Contents

LEMMA PutIsCall ==
  ASSUME Inv, call.op = "put"
  PROVE  /\ call \in [op : {"put"}, val : Versions, region : Regions, attempt : {0, 1}]
         /\ phase = "open" /\ kind = "s3"
  BY NoCallHasNoOp DEF Inv, Calling, Calls

LEMMA PutObjectKeeps == ASSUME Inv, PutObject PROVE Inv'
  <1> USE RemoteAssumption
  <1>1. /\ call \in [op : {"put"}, val : Versions, region : Regions, attempt : {0, 1}]
        /\ call.op = "put" /\ phase = "open" /\ kind = "s3" /\ m_map_size = 0
        /\ UNCHANGED <<home, phase, kind, creds, index, out>>
    BY PutIsCall DEF PutObject, Inv, Reading, TypeOK
  <1>2. PICK a \in PutAnswers(call.region) :
          /\ object' = IF a.stored THEN call.val ELSE object
          /\ IF Redirected(a)
             THEN /\ call' = [call EXCEPT !.attempt = 1, !.region = a.region]
                  /\ UNCHANGED <<reader, since>>
             ELSE /\ call' = NoCall
                  /\ IF PutDone(a) THEN DropReader /\ since' = {object'}
                     ELSE UNCHANGED reader /\ since' = since \cup {object'}
    BY DEF PutObject
  <1>3. object' \in Versions \cup {Absent} BY <1>1, <1>2 DEF Inv, TypeOK
  <1>4. CASE Redirected(a)
    <2>1. a.region \in Regions /\ ~a.stored
      BY <1>1, <1>4, PutAnswerFacts, RemoteAssumption DEF Redirected
    <2>2. /\ call' \in [op : {"put"}, val : Versions, region : Regions, attempt : {0, 1}]
          /\ call'.op = "put" /\ UNCHANGED <<object, reader, since>>
      BY <1>1, <1>2, <1>4, <2>1
    <2>3. call' \in Calls BY <2>2 DEF Calls
    <2>4. TypeOK' BY <1>1, <2>2, <2>3 DEF Inv, TypeOK, reader
    <2>5. Calling' BY <1>1, <2>2, <2>3 DEF Calling, Reads
    <2> QED BY <1>1, <2>2, <2>4, <2>5 DEF Inv, CacheIsTheObject, Reading, reader
  <1>5. CASE ~Redirected(a) /\ PutDone(a)
    <2>1. call' = NoCall /\ DropReader /\ since' = {object'} BY <1>2, <1>5
    <2>2. TypeOK' BY <1>1, <1>3, <2>1, DropReaderFacts DEF Inv, TypeOK, Contents
    <2>4. Calling' BY <2>1, NoCallHasNoOp DEF Calling, Reads
    <2> QED BY <1>1, <2>1, <2>2, <2>4, DropReaderFacts DEF Inv, CacheIsTheObject, Reading
  <1>6. CASE ~Redirected(a) /\ ~PutDone(a)
    <2>1. call' = NoCall /\ UNCHANGED reader /\ since' = since \cup {object'}
      BY <1>2, <1>6
    <2>2. TypeOK' BY <1>1, <1>3, <2>1 DEF Inv, TypeOK, reader
    <2>3. Calling' BY <2>1, NoCallHasNoOp DEF Calling, Reads
    <2>4. CacheIsTheObject' BY <1>1, <2>1 DEF Inv, CacheIsTheObject, reader
    <2>5. Reading' BY <1>1, <2>1 DEF Inv, Reading, reader
    <2> QED BY <2>2, <2>3, <2>4, <2>5 DEF Inv
  <1> QED BY <1>4, <1>5, <1>6

--------------------------------------------------------------------------------
(* The calls of the handle, and the store.                                 *)

LEMMA OpenKeeps == ASSUME Inv, Open PROVE Inv'
  <1>1. call' = [op |-> "open", from |-> 0, len |-> InitialRead, stage |-> "create", attempt |-> 0]
    BY DEF Open
  <1>2. call' \in Calls /\ call'.op = "open" /\ call'.stage = "create" BY <1>1, RemoteAssumption DEF Calls
  <1>3. creds' \in {"none", "lasting", "temporary", "expired"} BY DEF Open
  <1>4. /\ phase' = "opening" /\ index' = Absent /\ UNCHANGED <<object, home, kind>>
        /\ m_reader' = FALSE /\ m_region' \in Regions /\ m_cached' = FALSE /\ m_map_size' = 0
        /\ since' = {object}
    BY RemoteAssumption DEF Open, store
  <1>0. m_whole' \in Contents BY DEF Open, Contents
  <1>7. /\ index' \in Versions \cup {Absent, Nothing} /\ since' \subseteq Versions \cup {Absent}
        /\ phase' \in {"closed", "opening", "open"} /\ m_map_size' \in Nat
        /\ m_reader' \in BOOLEAN /\ m_cached' \in BOOLEAN
    BY <1>4 DEF Inv, TypeOK
  <1>8. ~(m_cached' \/ m_map_size' > 0) BY <1>4
  <1>5. TypeOK' BY <1>0, <1>2, <1>3, <1>4, <1>7, <1>8 DEF Inv, TypeOK, Contents
  <1>6. Calling' BY <1>2 DEF Calling, Reads
  <1> QED BY <1>5, <1>6 DEF Open, Inv, CacheIsTheObject, Reading, store

LEMMA BeginReadKeeps == ASSUME Inv, BeginRead PROVE Inv'
  <1> USE RemoteAssumption
  <1>1. /\ phase = "open" /\ index \in Versions /\ m_reader \in BOOLEAN
        /\ UNCHANGED <<store, phase, kind, creds, index, reader, out, since>>
    BY DEF BeginRead, Inv, TypeOK
  <1>2. PICK from \in HeaderSize[index] .. Size[index] - 1 :
          \E len \in 1 .. Size[index] - from : call' = Read("read", from, len)
    BY DEF BeginRead
  <1>3. PICK len \in 1 .. Size[index] - from : call' = Read("read", from, len) BY <1>2
  <1>4. from \in Nat /\ len \in Nat BY <1>1
  <1>5. /\ call' \in Calls /\ call'.op = "read" /\ call' # NoCall
        /\ call'.stage # "create" => m_reader
    BY <1>1, <1>3, <1>4, ReadIsCall DEF Reads
  <1>6. TypeOK' BY <1>1, <1>5 DEF Inv, TypeOK, store, reader
  <1>7. Calling' BY <1>1, <1>5 DEF Calling, reader
  <1> QED BY <1>1, <1>6, <1>7 DEF Inv, CacheIsTheObject, Reading, store, reader

LEMMA FlushKeeps == ASSUME Inv, Flush PROVE Inv'
  <1> USE RemoteAssumption
  <1>1. phase = "open" /\ call = NoCall /\ UNCHANGED <<home, phase, kind, creds, out>>
    BY DEF Flush, Idle
  <1>2. PICK v \in Versions :
          /\ index' = v
          /\ \/ /\ kind = "s3"
                /\ call' = [op |-> "put", val |-> v, region |-> PathRegion, attempt |-> 0]
                /\ UNCHANGED <<object, reader, since>>
             \/ /\ kind = "local" /\ object' = v /\ DropReader /\ since' = {v}
                /\ UNCHANGED call
    BY DEF Flush
  <1>3. CASE kind = "s3"
    <2>1. /\ call' = [op |-> "put", val |-> v, region |-> PathRegion, attempt |-> 0]
          /\ UNCHANGED <<object, reader, since>>
      BY <1>2, <1>3
    <2>2. call' \in Calls /\ call'.op = "put" BY <2>1 DEF Calls
    <2>3. TypeOK' BY <1>1, <1>2, <2>1, <2>2 DEF Inv, TypeOK, reader
    <2>4. Calling' BY <1>1, <1>3, <2>2 DEF Calling, Reads
    <2> QED BY <1>1, <2>1, <2>3, <2>4 DEF Inv, CacheIsTheObject, Reading, reader
  <1>4. CASE kind = "local"
    <2>1. object' = v /\ DropReader /\ since' = {v} /\ UNCHANGED call BY <1>2, <1>4
    <2>2. object' \in Versions /\ index' \in Versions BY <1>2, <2>1
    <2>3. TypeOK' BY <1>1, <2>1, <2>2, DropReaderFacts DEF Inv, TypeOK, Contents
    <2>4. Calling' BY <1>1, <2>1, NoCallHasNoOp DEF Calling, Reads
    <2> QED BY <1>1, <2>1, <2>3, <2>4, DropReaderFacts DEF Inv, CacheIsTheObject, Reading
  <1> QED BY <1>2, <1>3, <1>4

LEMMA CloseKeeps == ASSUME Inv, Close PROVE Inv'
  <1>1. /\ call = NoCall /\ phase' = "closed"
        /\ UNCHANGED <<store, kind, creds, index, reader, call, out, since>>
    BY DEF Close, Idle
  <1>2. TypeOK' BY <1>1 DEF Inv, TypeOK, store, reader
  <1>3. Calling' BY <1>1, NoCallHasNoOp DEF Calling, Reads
  <1> QED BY <1>1, <1>2, <1>3 DEF Inv, CacheIsTheObject, Reading, store, reader

LEMMA StoreKeeps == ASSUME Inv, Replaced \/ Moved \/ Expire PROVE Inv'
  <1>1. CASE Replaced
    <2>1. /\ object' \in Versions \cup {Absent} /\ kind # "local"
          /\ since' = IF m_reader THEN since \cup {object'} ELSE {object'}
          /\ UNCHANGED <<home, phase, kind, creds, index, reader, call, out>>
      BY <1>1 DEF Replaced
    <2>2. TypeOK' BY <2>1 DEF Inv, TypeOK, reader
    <2>3. Calling' BY <2>1 DEF Inv, Calling, reader
    <2>4. CacheIsTheObject'
      <3>1. m_cached => m_reader BY DEF Inv, TypeOK
      <3> QED BY <2>1, <3>1 DEF Inv, CacheIsTheObject, reader
    <2>5. Reading' BY <2>1 DEF Inv, Reading, reader
    <2> QED BY <2>2, <2>3, <2>4, <2>5 DEF Inv
  <1>2. CASE Moved
    BY <1>2 DEF Moved, Inv, TypeOK, Calling, CacheIsTheObject, Reading, reader
  <1>3. CASE Expire
    BY <1>3 DEF Expire, Inv, TypeOK, Calling, CacheIsTheObject, Reading, reader, store
  <1> QED BY <1>1, <1>2, <1>3

LEMMA StutterKeeps == ASSUME Inv, UNCHANGED vars PROVE Inv'
  BY DEF vars, Inv, TypeOK, Calling, CacheIsTheObject, Reading

--------------------------------------------------------------------------------
(* The theorems.                                                           *)

LEMMA InitInv == ASSUME Init PROVE Inv
  <1>1. m_whole \in Contents BY DEF Init, Contents
  <1>0. /\ object \in Versions \cup {Absent} /\ home \in Regions /\ phase = "closed"
        /\ kind \in Kinds /\ creds = "none" /\ index = Absent /\ m_reader = FALSE
        /\ m_region \in Regions /\ m_cached = FALSE /\ m_map_size = 0 /\ call = NoCall
        /\ since = {object}
    BY RemoteAssumption DEF Init
  <1>4. /\ index \in Versions \cup {Absent, Nothing} /\ since \subseteq Versions \cup {Absent}
        /\ phase \in {"closed", "opening", "open"} /\ m_map_size \in Nat
        /\ m_reader \in BOOLEAN /\ m_cached \in BOOLEAN
        /\ creds \in {"none", "lasting", "temporary", "expired"}
    BY <1>0
  <1>5. ~(m_cached \/ m_map_size > 0) /\ phase # "opening" BY <1>0
  <1>2. TypeOK BY <1>0, <1>1, <1>4, <1>5 DEF TypeOK, Contents
  <1>3. Calling BY NoCallHasNoOp DEF Init, Calling, Reads
  <1> QED BY <1>2, <1>3 DEF Init, Inv, CacheIsTheObject, Reading

LEMMA NextKeeps == ASSUME Inv, [Next]_vars PROVE Inv'
  BY OpenKeeps, BeginReadKeeps, FlushKeeps, CloseKeeps, StoreKeeps, StutterKeeps,
     CreateReaderKeeps, ReadWithoutRequestKeeps, GetKeeps, PutObjectKeeps
     DEF Next, Requests

\* The inductive invariant of reader, cache, call and object (2992-3600, 5256-5305).
THEOREM RemoteInductive == Spec => []Inv
  <1>1. Init => Inv BY InitInv
  <1>2. Inv /\ [Next]_vars => Inv' BY NextKeeps
  <1> QED BY <1>1, <1>2, PTL DEF Spec

\* Types, and that a cache or a mapping belongs to a reader (5256).
THEOREM RemoteTypeOK == Spec => []TypeOK
  <1>1. Inv => TypeOK BY DEF Inv
  <1> QED BY <1>1, RemoteInductive, PTL

\* What ensure_whole_cached() keeps (3318-3333, 3453-3470) is a version of the object
\* from its first to its last byte, and none that the last flush replaced, for any threshold and any sizes.
THEOREM CacheIsAlwaysTheObject == Spec => []CacheIsTheObject
  <1>1. Inv => CacheIsTheObject BY DEF Inv
  <1> QED BY <1>1, RemoteInductive, PTL

--------------------------------------------------------------------------------
(* What reads return and what an upload promises.                          *)

OfTheObject(from, bytes) ==
  \E v \in since : \/ bytes = Bytes(v, from, Len(bytes))
                   \/ kind = "fetch" /\ bytes = Bytes(v, 0, Size[v])

\* Bytes a read accepts without a request.
LEMMA LocalRange ==
  ASSUME Inv, ReadWithoutRequest, out' # out, out'.bytes # <<>>, kind # "http"
  PROVE  OfTheObject(out'.from, out'.bytes)
  <1>1. PICK bytes \in Contents :
          /\ After(bytes)
          /\ bytes # <<>> /\ kind # "http" =>
               \E v \in since \cap Versions : \E k \in Nat : bytes = Bytes(v, call.from, k)
    BY LocalBytes
  <1>2. call.op \in Reads /\ call.stage # "create" BY DEF ReadWithoutRequest, Reads
  <1>3. out' = [from |-> call.from, bytes |-> bytes] BY <1>1, <1>2, AfterKeeps
  <1>4. PICK v \in since \cap Versions : \E k \in Nat : bytes = Bytes(v, call.from, k)
    BY <1>1, <1>3
  <1>5. PICK k \in Nat : bytes = Bytes(v, call.from, k) BY <1>4
  <1>6. call.from \in Nat BY <1>2, CallFacts
  <1>7. Len(bytes) = k BY <1>5, <1>6, BytesFacts
  <1> QED BY <1>3, <1>5, <1>7 DEF OfTheObject

\* Bytes a read accepts of an answer.
LEMMA AnsweredRange ==
  ASSUME Inv, Get, out' # out, out'.bytes # <<>>, kind # "http"
  PROVE  OfTheObject(out'.from, out'.bytes)
  <1> USE RemoteAssumption
  <1>1. /\ call.op \in Reads /\ call.stage # "create" /\ kind # "local" /\ m_reader
        /\ call.stage \in {"whole", "range"}
    <2>1. call.op \in Reads /\ call.stage \in {"whole", "range"} /\ kind # "local"
      BY DEF Get, Reads
    <2> QED BY <2>1 DEF Inv, Calling
  <1>2. PICK from \in Nat, len \in Nat : \E a \in GetAnswers(m_region, from, len) : Answered(from, len, a)
    BY GetCases
  <1>3. PICK a \in GetAnswers(m_region, from, len) : Answered(from, len, a) BY <1>2
  <1>4. from = call.from /\ After(IF Taken(a) THEN a.body ELSE <<>>) BY <1>3 DEF Answered
  <1>5. TypeOK /\ m_region \in Regions BY DEF Inv, TypeOK
  <1>6. /\ a.body \in Contents
        /\ Success(a.status) =>
             /\ object \in Versions
             /\ \/ /\ from < Size[object] /\ a.total = Size[object]
                   /\ a.body = Bytes(object, from, Lower(len, Size[object] - from))
                \/ kind # "s3" /\ a.total = NoTotal /\ a.body = Whole(object)
    BY <1>1, <1>5, AnswerFacts
  <1>7. CASE Taken(a)
    <2>1. out' = [from |-> call.from, bytes |-> a.body]
      BY <1>1, <1>4, <1>6, <1>7, AfterKeeps
    <2>2. Success(a.status) BY <1>7 DEF Taken
    <2>3. object \in Versions /\ object \in since BY <1>1, <1>6, <2>2 DEF Inv, Reading
    <2>4. CASE /\ from < Size[object]
               /\ a.body = Bytes(object, from, Lower(len, Size[object] - from))
      <3>1. Lower(len, Size[object] - from) \in Nat BY <2>3, <2>4 DEF Lower
      <3>2. Len(a.body) = Lower(len, Size[object] - from) BY <2>3, <2>4, <3>1, BytesFacts
      <3> QED BY <1>4, <2>1, <2>3, <2>4, <3>2 DEF OfTheObject
    <2>5. CASE kind # "s3" /\ a.body = Whole(object)
      <3>1. kind = "fetch" BY <1>1, <1>5, <2>5 DEF TypeOK
      <3> QED BY <2>1, <2>3, <2>5, <3>1 DEF OfTheObject, Whole
    <2> QED BY <1>6, <2>2, <2>4, <2>5
  <1>8. CASE ~Taken(a)
    <2>1. <<>> \in Contents /\ After(<<>>) BY <1>4, <1>8 DEF Contents
    <2>2. out' = [from |-> call.from, bytes |-> <<>>] BY <1>1, <2>1, AfterKeeps
    <2> QED BY <2>2
  <1> QED BY <1>7, <1>8

LEMMA NextReads ==
  ASSUME Inv, [Next]_vars, out' # out, out'.bytes # <<>>, kind # "http"
  PROVE  OfTheObject(out'.from, out'.bytes)
  <1>1. ~Open BY DEF Open
  <1>2. UNCHANGED vars \/ BeginRead \/ Flush \/ Close \/ CreateReader \/ PutObject
          \/ Replaced \/ Moved \/ Expire => out' = out
    BY DEF vars, BeginRead, Flush, Close, CreateReader, PutObject, Replaced, Moved, Expire
  <1> QED BY <1>1, <1>2, LocalRange, AnsweredRange DEF Next, Requests

LEMMA NextSaves ==
  ASSUME Inv, [Next]_vars, call.op = "put", call' = NoCall, m_reader, ~m_reader'
  PROVE  object' = call.val
  <1>1. phase = "open" /\ call # NoCall BY PutIsCall, NoCallHasNoOp
  <1>2. call.region \in Regions BY PutIsCall
  <1>3. CASE PutObject
    <2>1. PICK a \in PutAnswers(call.region) :
            /\ object' = IF a.stored THEN call.val ELSE object
            /\ UNCHANGED reader \/ PutDone(a)
      BY <1>3 DEF PutObject
    <2>2. PutDone(a) BY <2>1 DEF reader
    <2> QED BY <1>2, <2>1, <2>2, PutAnswerFacts
  <1>4. ~Open /\ ~BeginRead /\ ~Flush /\ ~Close
    BY <1>1 DEF Open, BeginRead, Flush, Close, Idle
  <1>5. ~CreateReader /\ ~ReadWithoutRequest /\ ~Get
    BY DEF CreateReader, ReadWithoutRequest, Get
  <1>6. ~(Replaced \/ Moved \/ Expire \/ UNCHANGED vars)
    BY DEF Replaced, Moved, Expire, vars, reader
  <1> QED BY <1>3, <1>4, <1>5, <1>6 DEF Next, Requests

\* The bytes a read accepts are in place and of a version stored since the reader was
\* made and since the last flush, which drops the reader (7155-7158; 2963, 3139, 3346-3395, 3480-3520), for any lengths, versions and faults.
THEOREM RangesAreAlwaysOfTheObject == Spec => RangesAreOfTheObject
  <1>1. Inv /\ [Next]_vars =>
          [out' # out /\ out'.bytes # <<>> /\ kind # "http" =>
             \E v \in since : \/ out'.bytes = Bytes(v, out'.from, Len(out'.bytes))
                              \/ kind = "fetch" /\ out'.bytes = Bytes(v, 0, Size[v])]_vars
    BY NextReads DEF OfTheObject
  <1> QED BY <1>1, RemoteInductive, PTL DEF Spec, RangesAreOfTheObject

\* An upload that ends a flush has been stored (2834-2838), whatever was lost, refused
\* or redirected before.
THEOREM UploadsAreStored == Spec => SavedMeansStored
  <1>1. Inv /\ [Next]_vars =>
          [(call.op = "put" /\ call' = NoCall /\ m_reader /\ ~m_reader') => object' = call.val]_vars
    BY NextSaves
  <1> QED BY <1>1, RemoteInductive, PTL DEF Spec, SavedMeansStored

================================================================================
