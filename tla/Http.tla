--------------------------------- MODULE Http ---------------------------------
(***************************************************************************)
(* What the C++ client makes of an answer: parseResponse and decodeChunked *)
(* of http_response.cpp, over the read loop of HttpClient::doRequest.      *)
(*                                                                         *)
(* After the head, which is everything up to the blank line, a stream is a *)
(* sequence of items: chunk sizes, line ends, and pieces of the body.      *)
(* What the client reads is a prefix of it, since a connection may end     *)
(* anywhere and the loop takes every n = 0 for the end of the answer.      *)
(* The server frames honestly: chunk sizes that are larger than what       *)
(* follows, other than by a cut, or that overflow are not represented.     *)
(***************************************************************************)
EXTENDS Integers, Sequences, SequencesExt

CONSTANT BodyLen  \* pieces in the body of an answer, which is JSON and never empty

ASSUME BodyLenAssumption == BodyLen \in Nat \ {0}

Framings == {"length", "chunked", "close"}

\* One piece of data, a chunk size of n pieces, or a line end or head.
Item(kind, n) == [kind |-> kind, n |-> n]

\* The body of an answer.
Body == [n \in 1..BodyLen |-> Item("data", n)]

-----------------------------------------------------------------------------
(* What the server sends                                                   *)

Crlf == <<Item("crlf", 0)>>
Size(n) == <<Item("size", n)>> \o Crlf

\* A chunking of the body: where each chunk ends.
Chunkings ==
  {ends \in UNION {[1..k -> 1..BodyLen] : k \in 1..BodyLen} :
     /\ \A i \in 1..(Len(ends) - 1) : ends[i] < ends[i + 1]
     /\ ends[Len(ends)] = BodyLen}

\* Where the first i chunks end.
End(ends, i) == IF i = 0 THEN 0 ELSE ends[i]

Chunk(ends, i) ==
  Size(End(ends, i) - End(ends, i - 1))
    \o SubSeq(Body, End(ends, i - 1) + 1, End(ends, i)) \o Crlf

\* The chunks and the last one, which is empty.
Chunks(ends) ==
  FlattenSeq([i \in DOMAIN ends |-> Chunk(ends, i)]) \o Size(0) \o Crlf

\* What the server may send after the head.
Streams(framing) ==
  IF framing = "chunked" THEN {Chunks(ends) : ends \in Chunkings} ELSE {Body}

-----------------------------------------------------------------------------
(* decodeChunked                                                           *)

\* find("\r\n", pos), or 0.
LineEnd(body, pos) ==
  IF \E n \in pos..Len(body) : body[n].kind = "crlf"
    THEN CHOOSE n \in pos..Len(body) :
           body[n].kind = "crlf" /\ \A k \in pos..(n - 1) : body[k].kind # "crlf"
    ELSE 0

\* Where the data of the chunk at pos ends: its line is a size that stoul reads.
ChunkEnd(body, pos) == LineEnd(body, pos) + body[pos].n

\* The loop goes on: a chunk that is not the last one is there in full.
More(body, pos) ==
  /\ pos <= Len(body)
  /\ LineEnd(body, pos) > pos
  /\ body[pos].kind = "size" /\ body[pos].n # 0
  /\ ChunkEnd(body, pos) <= Len(body)

\* Mutant: the line end after a chunk is not skipped.
AtChunkEnd(end) == end + 1

\* Past the line end after the data.
NextChunk(end) == end + 2

\* One turn of the loop, at s.pos with s.out read so far.
Turn(body, s) ==
  IF More(body, s.pos)
    THEN [pos |-> NextChunk(ChunkEnd(body, s.pos)),
          out |-> s.out
                    \o SubSeq(body, LineEnd(body, s.pos) + 1, ChunkEnd(body, s.pos))]
    ELSE s

\* A turn that goes on moves pos, so that there are fewer turns than items.
DecodeChunked(body) ==
  LET turns[k \in 0..Len(body)] ==
        IF k = 0 THEN [pos |-> 1, out |-> << >>] ELSE Turn(body, turns[k - 1])
  IN  turns[Len(body)].out

-----------------------------------------------------------------------------
(* parseResponse                                                           *)

\* HttpResponse without the wording of error_: nothing was read, or no whole head.
Failed == [status |-> 0, body |-> << >>, ok |-> FALSE]

\* The body of the response, from what was read after the head.  Content-Length
\* cuts a longer one; a shorter one is taken as it is.
ParseResponse(framing, body) ==
  IF framing = "chunked" THEN DecodeChunked(body)
  ELSE IF framing = "length" /\ Len(body) > BodyLen THEN SubSeq(body, 1, BodyLen)
  ELSE body

\* What may be read, when the connection ends after some of a stream or all of it.
Bodies ==
  [framing \in Framings |->
     UNION {{ParseResponse(framing, SubSeq(stream, 1, n)) : n \in 0..Len(stream)} :
              stream \in Streams(framing)}]

\* What doRequest may return of an answer.
Reads(framing, status) ==
  {Failed} \cup {[status |-> status, ok |-> TRUE, body |-> b] : b \in Bodies[framing]}
=============================================================================
