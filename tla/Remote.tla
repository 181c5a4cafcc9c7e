--------------------------------- MODULE Remote ---------------------------------
(***************************************************************************)
(* How one handle (stards.h) reads and writes its object by requests: the  *)
(* range readers of local files, HTTP and S3, the whole-object cache, the  *)
(* search for the bucket's region, S3Writer, and the credentials they use. *)
(* Around them is a store that may lose requests and answers, refuse,      *)
(* redirect, move the bucket, and hold another version of the object at    *)
(* every request.                                                          *)
(*                                                                         *)
(* Bytes carry the version and the offset they come from; the bytes of an  *)
(* error answer are those of a page.                                       *)
(***************************************************************************)
EXTENDS Integers, Sequences

CONSTANTS Versions,     \* contents the object may have
          Size, HeaderSize, \* length of a version, and of its header
          Page, PageSize, \* the body of an error answer
          Absent, Nothing, Regions, PathRegion, \* the region parseFilePath() finds
          Kinds,        \* "local", "http" (libcurl), "fetch" (HTTP in a browser), "s3"
          Threshold,    \* OpenOptions.prefetch_whole_below_bytes
          InitialRead,  \* INITIAL_READ_SIZE
          MinHeader,    \* magic, format and header size
          Sources,      \* where credentials may be found, see Resolve
          Faults        \* what the store may do: "lost", "busy", "moved", "replaced",
                        \* "whole" (answers a range with the whole object)

ASSUME RemoteAssumption ==
  /\ Size \in [Versions -> Nat] /\ HeaderSize \in [Versions -> Nat]
  /\ \A v \in Versions : MinHeader <= HeaderSize[v] /\ HeaderSize[v] <= Size[v]
  /\ PageSize \in Nat /\ Threshold \in Nat /\ InitialRead \in Nat /\ MinHeader \in Nat \ {0}
  /\ MinHeader <= InitialRead /\ MinHeader <= PageSize
  /\ {Absent, Nothing, Page} \cap Versions = {} /\ Absent # Nothing
  /\ PathRegion \in Regions /\ Absent \notin Regions
  /\ Kinds \subseteq {"local", "fetch", "http", "s3"}

VARIABLES object,    \* what the store holds
          home,      \* the region of the bucket
          phase,     \* of the handle: "closed", "opening", "open"
          kind,      \* its reader
          creds,     \* m_s3_credentials: "none", "lasting", "temporary", "expired"
          index,     \* the version whose index loadIndex() read; Absent: a new file,
                     \* Nothing: of a header that was not all there
          m_reader,  \* whether there is a reader
          m_region, m_cached, m_whole, \* its state
          m_map_size, \* and of a local reader: the length mapped, 0 if none
          call,      \* the read_range() or putObject() under way
          out,       \* the bytes the last accepted read returned, with their offset
          since      \* history: the versions the object had since the last flush of
                     \* the handle and since its reader was made

store == <<object, home>>
reader == <<m_reader, m_region, m_cached, m_whole, m_map_size>>
vars == <<object, home, phase, kind, creds, index, m_reader, m_region, m_cached, m_whole,
          m_map_size, call, out, since>>

Lower(a, b) == IF a < b THEN a ELSE b
Bytes(v, from, len) == [i \in 1..len |-> <<v, from + i - 1>>]
PageBody == Bytes(Page, 0, PageSize)

\* The bytes at [from, from + len) of a longer or shorter buffer.
\* serve_from_cache(), in every reader.
Serve(buf, from, len) ==
  IF from >= Len(buf) THEN <<>> ELSE SubSeq(buf, from + 1, from + Lower(len, Len(buf) - from))

NoCall == [op |-> "none"]
Calls == [op : {"open", "header", "read"}, from : Nat, len : Nat,
          stage : {"create", "whole", "range"}, attempt : {0, 1}]
         \cup [op : {"put"}, val : Versions, region : Regions, attempt : {0, 1}]

--------------------------------------------------------------------------------
(* Credentials: environment, SSO token cache, credentials file.            *)

\* readToken(): the file named by the hash if its token is for the start URL and
\* not expired, else the first file of the directory with that start URL; if that
\* one is expired there is no token.
ReadToken(tokens) ==
  LET ours == {i \in DOMAIN tokens : tokens[i].url}
  IN \/ \E i \in ours : tokens[i].named /\ tokens[i].valid
     \/ \E i \in ours : tokens[i].valid /\ \A j \in ours : i <= j

\* fromSSO(): the token is exchanged for keys by a request that may fail.
FromSSO(s) == ReadToken(s.tokens) /\ s.exchanged

\* S3Credentials::resolve(): environment, SSO session, credentials file.
Resolve(s) == s.env \/ FromSSO(s) \/ s.file

\* The keys of SSO run out; those of the environment and of the file are taken to last.
Temporary(s) == ~s.env /\ FromSSO(s)

--------------------------------------------------------------------------------
(* The store.                                                              *)

\* Answers to a GET of [from, from + len): a status, a body, the total of
\* Content-Range, the region of x-amz-bucket-region.
NoTotal == -1
Answer(status, body, total, region) ==
  [status |-> status, body |-> body, total |-> total, region |-> region]
Error(status) == Answer(status, PageBody, NoTotal, Absent)

GetAnswers(region, from, len) ==
  (IF "lost" \in Faults THEN {Answer(0, <<>>, NoTotal, Absent)} ELSE {}) \cup
  (IF "busy" \in Faults THEN {Error(503)} ELSE {}) \cup
  (IF kind = "s3" /\ region # home
   THEN {Answer(301, PageBody, NoTotal, r) : r \in {home, Absent}}
   ELSE IF kind = "s3" /\ creds = "expired" THEN {Error(403)}
   ELSE IF object = Absent THEN {Error(404)}
   ELSE (IF from >= Size[object] THEN {Error(416)}
         ELSE {Answer(206, Bytes(object, from, Lower(len, Size[object] - from)),
                      Size[object], Absent)})
        \cup (IF "whole" \in Faults /\ kind # "s3"
              THEN {Answer(200, Bytes(object, 0, Size[object]), NoTotal, Absent)} ELSE {}))

\* Another program stores a version, or removes the object; the bucket is made
\* anew in another region; temporary credentials run out.
Replaced == /\ "replaced" \in Faults /\ phase # "closed" /\ kind # "local"
            /\ object' \in (Versions \cup {Absent}) \ {object}
            /\ since' = IF m_reader THEN since \cup {object'} ELSE {object'}
            /\ UNCHANGED <<home, phase, kind, creds, index, reader, call, out>>
Moved == /\ "moved" \in Faults /\ phase # "closed" /\ kind = "s3"
         /\ home' \in Regions \ {home}
         /\ UNCHANGED <<object, phase, kind, creds, index, reader, call, out, since>>
Expire == /\ creds = "temporary"
          /\ creds' = "expired"
          /\ UNCHANGED <<store, phase, kind, index, reader, call, out, since>>

--------------------------------------------------------------------------------
(* Reading.                                                                *)

\* The end of read_range(): the callers accept the bytes only if all were there.
Accept(bytes) ==
  IF Len(bytes) = call.len THEN out' = [from |-> call.from, bytes |-> bytes]
  ELSE UNCHANGED out

Read(op, from, len) ==
  [op |-> op, from |-> from, len |-> len,
   stage |-> IF m_reader THEN "range" ELSE "create", attempt |-> 0]

\* The index read from the bytes of a header.  A stream that ends early leaves
\* counts at zero or undefined: no entry is read, or an allocation fails.
Parsed(bytes) ==
  LET v == IF bytes = <<>> THEN Page ELSE bytes[1][1]
  IN IF v # Page /\ HeaderSize[v] <= Len(bytes) THEN {<<"open", v>>}
     ELSE {<<"open", Nothing>>, <<"closed", Nothing>>}

\* A mutant: the magic is not looked at.
LoadIndexUnchecked(bytes) ==
  IF Len(bytes) < MinHeader THEN call' = NoCall /\ index' = Absent /\ phase' = "closed"
  ELSE call' = NoCall /\ index' = bytes[1][1] /\ phase' = "open"

\* loadIndex() looks at the initial bytes and fetches a longer header; open() takes
\* no header for no object, and a handle that may write it for a new file.
LoadIndex(bytes) ==
  IF call.op = "open" /\ Len(bytes) < MinHeader
  THEN /\ call' = NoCall /\ index' = Absent
       /\ phase' \in IF kind = "local" THEN {"closed"} ELSE {"closed", "open"}
  ELSE IF call.op = "open" /\ bytes[1][1] = Page
  THEN call' = NoCall /\ index' = Nothing /\ phase' = "closed"
  ELSE IF call.op = "open" /\ HeaderSize[bytes[1][1]] > InitialRead
  THEN call' = Read("header", 0, HeaderSize[bytes[1][1]]) /\ UNCHANGED <<phase, index>>
  ELSE call' = NoCall /\ \E p \in Parsed(bytes) : phase' = p[1] /\ index' = p[2]

\* What follows a read.
After(bytes) ==
  IF call.op = "read"
  THEN call' = NoCall /\ Accept(bytes) /\ UNCHANGED <<phase, index>>
  ELSE LoadIndex(bytes) /\ UNCHANGED out

\* reader(): the first read makes a reader, and a remote one tries to fetch the
\* whole object.
CreateReader ==
  /\ call.op \in {"open", "header", "read"} /\ call.stage = "create"
  /\ m_reader' = TRUE /\ m_region' = PathRegion /\ m_cached' = FALSE /\ m_whole' = <<>>
  /\ m_map_size' = IF kind = "local" /\ object # Absent THEN Size[object] ELSE 0
  /\ call' = [call EXCEPT !.stage = IF kind # "local" /\ Threshold > 0 THEN "whole" ELSE "range"]
  /\ since' = {object}
  /\ UNCHANGED <<store, phase, kind, creds, index, out>>

\* Reads that need no request: from the cache, or from the mapping (which keeps
\* its length and shows what the file holds).
ReadWithoutRequest ==
  /\ call.op \in {"open", "header", "read"} /\ call.stage = "range"
  /\ m_cached \/ kind = "local"
  /\ After(IF m_cached THEN Serve(m_whole, call.from, call.len)
           ELSE IF m_map_size = 0 THEN <<>>
           ELSE Serve(Bytes(object, 0, m_map_size), call.from, call.len))
  /\ UNCHANGED <<store, kind, creds, reader, since>>

Success(status) == 200 <= status /\ status < 300

\* A mutant: a full answer counts as the whole object.
FitsOrFills(a) == (a.total # NoTotal /\ a.total <= Threshold) \/ Len(a.body) <= Threshold

\* ensure_whole_cached(): the answer is the whole object.
IsWhole(a) == (a.total # NoTotal /\ a.total <= Threshold) \/ Len(a.body) < Threshold

\* A reader that uses libcurl for plain HTTP takes any answer for data.
Taken(a) == a.status # 0 /\ (Success(a.status) \/ kind = "http")

\* A mutant: a redirect is always followed.
RedirectedAgain(a) == kind = "s3" /\ a.status = 301 /\ a.region # Absent

Redirected(a) == kind = "s3" /\ a.status = 301 /\ a.region # Absent /\ call.attempt = 0

\* signed_get() after a 301: another signer, which the reader keeps, and once more.
Followed(a) == IF Redirected(a) THEN a.region ELSE m_region

\* One GET and its answer, in ensure_whole_cached() or read_at().
Get ==
  /\ call.op \in {"open", "header", "read"} /\ call.stage \in {"whole", "range"}
  /\ ~m_cached /\ kind # "local"
  /\ \E a \in IF call.stage = "whole" THEN GetAnswers(m_region, 0, Threshold)
              ELSE GetAnswers(m_region, call.from, call.len) :
       /\ m_region' = Followed(a)
       /\ IF Redirected(a)
          THEN /\ call' = [call EXCEPT !.attempt = 1]
               /\ UNCHANGED <<phase, index, out, m_cached, m_whole>>
          ELSE IF call.stage = "whole"
          THEN /\ m_cached' = (Taken(a) /\ IsWhole(a))
               /\ m_whole' = IF m_cached' THEN a.body ELSE <<>>
               /\ call' = [call EXCEPT !.stage = "range", !.attempt = 0]
               /\ UNCHANGED <<phase, index, out>>
          ELSE /\ After(IF Taken(a) THEN a.body ELSE <<>>)
               /\ UNCHANGED <<m_cached, m_whole>>
  /\ UNCHANGED <<store, kind, creds, m_reader, m_map_size, since>>

--------------------------------------------------------------------------------
(* Writing.                                                                *)

\* Answers to a PUT, and whether the object was stored.
PutAnswers(region) ==
  (IF "lost" \in Faults THEN {[status |-> 0, region |-> Absent, stored |-> s] :
                                s \in {FALSE, region = home /\ creds # "expired"}} ELSE {}) \cup
  (IF "busy" \in Faults THEN {[status |-> 503, region |-> Absent, stored |-> FALSE]} ELSE {}) \cup
  (IF region # home THEN {[status |-> 301, region |-> r, stored |-> FALSE] : r \in {home, Absent}}
   ELSE IF creds = "expired" THEN {[status |-> 403, region |-> Absent, stored |-> FALSE]}
   ELSE {[status |-> 200, region |-> Absent, stored |-> TRUE]})

\* A mutant: the reader outlives the flush.
KeepReader == UNCHANGED reader

\* The end of a flush: m_reader.reset().
DropReader == /\ m_reader' = FALSE /\ m_region' = PathRegion /\ m_cached' = FALSE
              /\ m_whole' = <<>> /\ m_map_size' = 0

\* A mutant: any answer below 400 is a success.
PutAccepts(a) == 200 <= a.status /\ a.status < 400

PutDone(a) == Success(a.status)

\* One PUT and its answer; a failure is thrown to the caller of flush().
PutObject ==
  /\ call.op = "put"
  /\ \E a \in PutAnswers(call.region) :
       /\ object' = IF a.stored THEN call.val ELSE object
       /\ IF Redirected(a)
          THEN /\ call' = [call EXCEPT !.attempt = 1, !.region = a.region]
               /\ UNCHANGED <<reader, since>>
          ELSE /\ call' = NoCall
               /\ IF PutDone(a) THEN DropReader /\ since' = {object'}
                  ELSE UNCHANGED reader /\ since' = since \cup {object'}
  /\ UNCHANGED <<home, phase, kind, creds, index, out>>

--------------------------------------------------------------------------------
(* The calls of the handle.                                                *)

Init == /\ object \in Versions \cup {Absent} /\ home \in Regions
        /\ phase = "closed" /\ kind \in Kinds /\ creds = "none" /\ index = Absent
        /\ m_reader = FALSE /\ m_region = PathRegion /\ m_cached = FALSE /\ m_whole = <<>>
        /\ m_map_size = 0 /\ call = NoCall /\ out = [from |-> 0, bytes |-> <<>>]
        /\ since = {object}

Idle == call = NoCall

\* The constructor resolves the credentials of an S3 object once; open() refuses a
\* missing local file before.
Open == /\ phase = "closed" /\ Idle
        /\ kind = "local" => object # Absent
        /\ IF kind = "s3"
           THEN \E s \in Sources : /\ Resolve(s)
                                   /\ creds' = IF Temporary(s) THEN "temporary" ELSE "lasting"
           ELSE creds' = "none"
        /\ phase' = "opening"
        /\ m_reader' = FALSE /\ m_region' = PathRegion /\ m_cached' = FALSE /\ m_whole' = <<>>
        /\ m_map_size' = 0 /\ since' = {object}
        /\ call' = [op |-> "open", from |-> 0, len |-> InitialRead, stage |-> "create", attempt |-> 0]
        /\ out' = [from |-> 0, bytes |-> <<>>] /\ index' = Absent
        /\ UNCHANGED <<store, kind>>

\* load_entry(), readBlocks() and the metadata blocks: a range after the header, of
\* the index read.
BeginRead == /\ phase = "open" /\ Idle /\ index \in Versions
             /\ \E from \in HeaderSize[index]..Size[index]-1 :
                  \E len \in 1..Size[index]-from : call' = Read("read", from, len)
             /\ UNCHANGED <<store, phase, kind, creds, index, reader, out, since>>

\* The sink of flush_internal(): an S3 object is put, a local file is rewritten.  The
\* index takes the positions of the new version before.
Flush == /\ phase = "open" /\ Idle
         /\ \E v \in Versions :
              /\ index' = v
              /\ \/ /\ kind = "s3"
                    /\ call' = [op |-> "put", val |-> v, region |-> PathRegion, attempt |-> 0]
                    /\ UNCHANGED <<object, reader, since>>
                 \/ /\ kind = "local" /\ object' = v /\ DropReader /\ since' = {v}
                    /\ UNCHANGED call
         /\ UNCHANGED <<home, phase, kind, creds, out>>

Close == /\ phase = "open" /\ Idle /\ phase' = "closed"
         /\ UNCHANGED <<store, kind, creds, index, reader, call, out, since>>

Requests == Get \/ PutObject
Next == \/ Open \/ BeginRead \/ Flush \/ Close
        \/ CreateReader \/ ReadWithoutRequest \/ Requests
        \/ Replaced \/ Moved \/ Expire

Spec == Init /\ [][Next]_vars
\* A call goes on while it needs no answer.  Nothing obliges the store to give one.
FairSpec == Spec /\ WF_vars(CreateReader \/ ReadWithoutRequest)
--------------------------------------------------------------------------------
(* Properties.                                                             *)

\* Types.  Only a reader has a cache, and there is a reader once the handle is open.
TypeOK ==
  /\ object \in Versions \cup {Absent} /\ home \in Regions
  /\ phase \in {"closed", "opening", "open"} /\ kind \in Kinds
  /\ creds \in {"none", "lasting", "temporary", "expired"}
  /\ index \in Versions \cup {Absent, Nothing}
  /\ m_reader \in BOOLEAN /\ m_region \in Regions /\ m_map_size \in Nat
  /\ m_cached \in BOOLEAN /\ m_whole \in Seq((Versions \cup {Page}) \X Nat)
  /\ call = NoCall \/ call \in Calls
  /\ phase = "opening" => call \in Calls /\ call.op \in {"open", "header"}
  /\ m_cached \/ m_map_size > 0 => m_reader
  /\ since \subseteq Versions \cup {Absent}

\* The cache holds one version of the object from its first to its last byte, one
\* that was stored since the reader was made and since the last flush: whatever the
\* answer to the request for the first bytes was (3318-3333, 3453-3470), no part of a
\* longer object and no error page is kept, and no cache outlives a flush (7155-7158),
\* unless another program stored just those bytes again.  The reader that uses
\* libcurl for plain HTTP is left out: it keeps the page of a refused request.
CacheIsTheObject ==
  m_cached /\ kind # "http" => \E v \in since \ {Absent} : m_whole = Bytes(v, 0, Size[v])

\* The bytes an array read accepts are those of one version, at the offset that
\* was asked for, and of none that the last flush of the handle replaced (7158; the
\* comment at 2963 says "Read exactly `len` bytes starting at absolute file offset
\* `offset`").  The reader that uses fetch() does not tell a 200 from a 206 (3139):
\* of a server that ignores ranges it also takes a whole version of just the length
\* that was asked for.
RangesAreOfTheObject ==
  [][out' # out /\ out'.bytes # <<>> /\ kind # "http" =>
       \E v \in since : \/ out'.bytes = Bytes(v, out'.from, Len(out'.bytes))
                        \/ kind = "fetch" /\ out'.bytes = Bytes(v, 0, Size[v])]_vars

\* flush() takes an upload for done only when the object is stored (2834-2838).
SavedMeansStored ==
  [][(call.op = "put" /\ call' = NoCall /\ m_reader /\ ~m_reader') => object' = call.val]_vars

\* A handle opens with an index it has read, or as a new file (the comment at 7403
\* says of open() "@throws std::runtime_error if file doesn't exist in READ_ONLY mode
\* or is corrupt").
OpensWithAnIndex == phase = "open" => index # Nothing

\* Every request is answered or fails in the end.  The code does not see to it: no
\* transfer has a time limit (1661-1664, 2625-2639, 3184-3196, 3427-3435), and a server
\* that accepts a request and stays silent holds the call for ever.
RequestsEnd == WF_vars(Requests)

\* Then every call ends too, also when requests are lost, refused or redirected again:
\* no answer makes the code ask more than once more (3354-3401, 3572-3578, 2816-2832).
CallsEnd == RequestsEnd => (call # NoCall ~> call = NoCall)

=================================================================================
