----------------------------- MODULE PushProofs -----------------------------
(* What load-image shows: a picture on its way from the command line to the *)
(* glass, through packing, stream, header, buffer, image memory and two     *)
(* waveform tables, with other clients and the puller at the same panel and *)
(* the server being stopped, for pictures of any size and chunks of any     *)
(* size.                                                                    *)
EXTENDS ServerProofs, CodecProofs, SequenceTheorems

(* All the messages of a push: header, chunks, and the end of the stream.   *)
Script(png, size) ==
  LET bytes == PackPNGGrayscale4(png)
      n     == (Len(bytes) + size - 1) \div size
  IN  [i \in 1..(n + 2) |->
         CASE i = 1     -> Header(Len(bytes), 4, Whole(png))
           [] i = n + 2 -> Eof
           [] OTHER     -> Data(SubSeq(bytes, (i - 2) * size + 1,
                                       AtMost((i - 1) * size, Len(bytes))))]

(* The first n chunks of it, put together.                                  *)
FirstBytes(png, size, n) ==
  LET bytes == PackPNGGrayscale4(png)
  IN  SubSeq(bytes, 1, AtMost(n * size, Len(bytes)))

(* Of the messages of s the client has sent j, and k have been received.    *)
Sends(c, s, k, j) ==
  /\ k <= j /\ j <= Len(s)
  /\ up[c] = SubSeq(s, k + 1, j)
  /\ todo[c] = SubSeq(s, j + 1, Len(s) - 1)
  /\ \/ cli[c] = "send" /\ j < Len(s)
     \/ cli[c] = "wait" /\ j = Len(s)

(* What the handler has made of these k.                                    *)
Collects(c, png, size, k) ==
  LET s == Script(png, size)
  IN  \/ h[c] \in {"none", "LoadImage"} /\ k = 0
      \/ /\ h[c] = "recv" /\ 0 < k /\ k < Len(s)
         /\ hdr[c] = s[1]
         /\ buf[c] = FirstBytes(png, size, k - 1)
      \/ /\ h[c] = "load"
         /\ hdr[c] = s[1]
         /\ buf[c] = PackPNGGrayscale4(png)

Streaming(c, png) ==
  \E size \in ChunkBytes : \E k, j \in Nat :
    Sends(c, Script(png, size), k, j) /\ Collects(c, png, size, k)

(* The handler at work is that of the call under way, and begins with an    *)
(* empty buffer.                                                            *)
HandlerOf(c) ==
  /\ rpc[c] = "none" => down[c] = "none"
  /\ rpc[c] # "none" => out[c] = "none"
  /\ rpc[c] # "none" /\ down[c] = "none"
       => \/ h[c] \in {"none", rpc[c]}
          \/ h[c] \in {"recv", "load"} /\ rpc[c] = "LoadImage"
          \/ h[c] = "answer" /\ rpc[c] \in Cred
  /\ (down[c] \in {"ok", "error"} \/ out[c] = "ok") => h[c] = "none"
  /\ main # "exit" /\ h[c] \notin {"recv", "load"} => buf[c] = <<>>

Pushed(c) == cmd[c].name = "load-image"

Good(c) == [img |-> Levels(cmd[c].png), mode |-> cmd[c].mode]

(* Where a push stands: its stream, its picture in image memory unless      *)
(* somebody else has used the panel since, its picture on the glass with    *)
(* nothing left to be drawn over it.                                        *)
PushOf(c) ==
  Pushed(c) =>
    /\ cmd[c].png \in Pngs /\ Packs4(cmd[c].png) /\ Known(cmd[c].mode)
    /\ rpc[c] \in {"LoadImage", "Refresh", "none"}
    /\ rpc[c] = "LoadImage" /\ down[c] = "none" => Streaming(c, cmd[c].png)
    /\ alone[c] /\ ((rpc[c] = "LoadImage" /\ down[c] = "ok")
                    \/ (rpc[c] = "Refresh" /\ down[c] = "none"))
         => mem = Image(cmd[c].png)
    /\ alone[c] /\ ((rpc[c] = "Refresh" /\ down[c] = "ok") \/ out[c] = "ok")
         => drive = Still /\ glass = Good(c)

Shape ==
  /\ DOMAIN todo = Clients /\ DOMAIN up = Clients
  /\ DOMAIN hdr = Clients /\ DOMAIN buf = Clients

PushInv == Shape /\ \A c \in Clients : HandlerOf(c) /\ PushOf(c)

-----------------------------------------------------------------------------
(* The messages of a push.                                                  *)

LEMMA SideRange == \A n \in Side : n \in Nat /\ n < 65536
<1>1. \A max \in Int : \A n \in 1..max : n \in Nat /\ n < max + 1
  OBVIOUS
<1>2. 65535 + 1 = 65536
  BY SMT
<1> QED
  BY SMT, <1>1, <1>2 DEF Side

LEMMA PngSize ==
  ASSUME NEW png \in Pngs
  PROVE  /\ png.w \in Nat /\ png.w < 65536
         /\ png.h \in Nat /\ png.h < 65536
         /\ png \in Pictures(png.w, png.h)
<1>1. PICK w \in Side, h1 \in Side : png \in Pictures(w, h1)
  BY PngAssumption
<1>2. png.w = w /\ png.h = h1
  BY <1>1 DEF Pictures
<1> QED
  BY <1>1, <1>2, SideRange

(* A function on 1..n is a sequence.                                        *)
LEMMA Listed ==
  ASSUME NEW n \in Nat, NEW f, f = [i \in 1..n |-> f[i]]
  PROVE  \E S : f \in Seq(S) /\ Len(f) = n
<1> DEFINE S == {f[i] : i \in 1..n}
<1>1. f \in [1..n -> S] /\ DOMAIN f = 1..n
  OBVIOUS
<1> HIDE DEF S
<1>2. f \in Seq(S)
  BY <1>1, SeqDef
<1>3. Len(f) = n
  BY <1>1, <1>2, LenProperties
<1> QED
  BY <1>2, <1>3

LEMMA PackedIsSeq ==
  ASSUME NEW png \in Pngs
  PROVE  /\ \E S : PackPNGGrayscale4(png) \in Seq(S)
         /\ Len(PackPNGGrayscale4(png)) \in Nat
<1> DEFINE bytes == PackPNGGrayscale4(png)
           n == (png.w \div 2) * png.h
<1>1. n \in Nat
  BY PngSize
<1>2. bytes = [i \in 1..n |-> bytes[i]]
  BY DEF PackPNGGrayscale4
<1> HIDE DEF bytes, n
<1>3. \E S : bytes \in Seq(S) /\ Len(bytes) = n
  BY <1>1, <1>2, Listed
<1> QED
  BY <1>1, <1>3 DEF bytes

LEMMA ChunkCount ==
  ASSUME NEW len \in Nat, NEW size \in Nat \ {0}
  PROVE  (len + size - 1) \div size \in Nat
OBVIOUS

LEMMA ScriptFacts ==
  ASSUME NEW png \in Pngs, NEW size \in ChunkBytes
  PROVE  LET s == Script(png, size)
             bytes == PackPNGGrayscale4(png)
         IN  /\ \E S : s \in Seq(S)
             /\ Len(s) \in Nat /\ Len(s) >= 2
             /\ s[1] = Header(Len(bytes), 4, Whole(png))
             /\ s[Len(s)] = Eof
             /\ \A i \in 2..(Len(s) - 1) :
                  s[i] = Data(SubSeq(bytes, (i - 2) * size + 1,
                                     AtMost((i - 1) * size, Len(bytes))))
             /\ <<Header(Len(bytes), 4, Whole(png))>> \o Chunks(bytes, size)
                  = SubSeq(s, 1, Len(s) - 1)
<1> DEFINE s == Script(png, size)
           bytes == PackPNGGrayscale4(png)
           n == (Len(bytes) + size - 1) \div size
           header == Header(Len(bytes), 4, Whole(png))
           chunk(i) == Data(SubSeq(bytes, (i - 1) * size + 1,
                                   AtMost(i * size, Len(bytes))))
           chunks == Chunks(bytes, size)
<1>1. Len(bytes) \in Nat /\ size \in Nat \ {0}
  BY PackedIsSeq, CliAssumption
<1>2. n \in Nat
  BY <1>1, ChunkCount
<1>3. s = [i \in 1..(n + 2) |-> CASE i = 1     -> header
                                  [] i = n + 2 -> Eof
                                  [] OTHER     -> Data(SubSeq(bytes, (i - 2) * size + 1,
                                                     AtMost((i - 1) * size, Len(bytes))))]
  BY DEF Script
<1>4. chunks = [i \in 1..n |-> chunk(i)]
  BY DEF Chunks
<1> HIDE DEF s, n, chunks, bytes, header
<1>5. n + 2 \in Nat /\ s = [i \in 1..(n + 2) |-> s[i]]
  BY <1>2, <1>3
<1>6. PICK S : s \in Seq(S) /\ Len(s) = n + 2
  BY <1>5, Listed
<1>7. s[1] = header /\ s[n + 2] = Eof
  BY <1>2, <1>3
<1>8. ASSUME NEW i \in 2..(n + 1)
      PROVE  s[i] = Data(SubSeq(bytes, (i - 2) * size + 1,
                                AtMost((i - 1) * size, Len(bytes))))
  <2>1. i \in 1..(n + 2) /\ i # 1 /\ i # n + 2
    BY <1>2
  <2> QED
    BY <1>3, <2>1
<1>9. <<header>> \o chunks = SubSeq(s, 1, n + 1)
  <2>1. SubSeq(s, 1, n + 1) = [i \in 1..(n + 1) |-> s[i]]
    BY <1>2, <1>6
  <2>2. Len(chunks) = n /\ DOMAIN chunks = 1..n
    BY <1>2, <1>4
  <2>3. <<header>> \o chunks
          = [i \in 1..(n + 1) |-> IF i = 1 THEN header ELSE chunks[i - 1]]
    BY <1>2, <2>2
  <2>4. ASSUME NEW i \in 1..(n + 1)
        PROVE  (IF i = 1 THEN header ELSE chunks[i - 1]) = s[i]
    <3>1. CASE i = 1
      BY <1>7, <3>1
    <3>2. CASE i # 1
      <4>1. i \in 2..(n + 1) /\ i - 1 \in 1..n /\ (i - 1) - 1 = i - 2
        BY <1>2, <3>2
      <4>2. chunks[i - 1] = chunk(i - 1)
        BY <1>4, <4>1
      <4>3. s[i] = chunk(i - 1)
        BY <1>8, <4>1
      <4> QED
        BY <3>2, <4>2, <4>3
    <3> QED
      BY <3>1, <3>2
  <2> QED
    BY <2>1, <2>3, <2>4
<1>10. (n + 2) - 1 = n + 1 /\ n + 2 >= 2
  BY <1>2
<1> QED
  BY <1>5, <1>6, <1>7, <1>8, <1>9, <1>10 DEF s, bytes, header, chunks

(* A message more at the end of a part of s, one less at its beginning.     *)
LEMMA OneMore ==
  ASSUME NEW S, NEW s \in Seq(S), NEW k \in Nat, NEW j \in Nat, k <= j, j < Len(s)
  PROVE  Append(SubSeq(s, k + 1, j), s[j + 1]) = SubSeq(s, k + 1, j + 1)
<1>1. Len(s) \in Nat /\ k + 1 \in 1..Len(s) /\ j + 1 \in (k + 1)..Len(s)
      /\ (j + 1) - 1 = j
  BY LenProperties
<1>2. s[j + 1] \in S
  BY <1>1, ElementOfSeq
<1>3. SubSeq(s, k + 1, j + 1) = SubSeq(s, k + 1, j) \o <<s[j + 1]>>
  BY <1>1, SubSeqRecursiveSecond
<1>4. SubSeq(s, k + 1, j) \in Seq(S)
  <2>1. \A i \in (k + 1)..j : s[i] \in S
    BY <1>1, ElementOfSeq
  <2> QED
    BY <1>1, <2>1, SubSeqProperties
<1> QED
  BY <1>2, <1>3, <1>4, AppendIsConcat

LEMMA OneLess ==
  ASSUME NEW S, NEW s \in Seq(S), NEW k \in Nat, NEW j \in Nat, j <= Len(s)
  PROVE  /\ SubSeq(s, k + 1, j) # <<>> <=> k < j
         /\ k < j => /\ Head(SubSeq(s, k + 1, j)) = s[k + 1]
                     /\ Tail(SubSeq(s, k + 1, j)) = SubSeq(s, (k + 1) + 1, j)
<1>1. Len(s) \in Nat
  BY LenProperties
<1>2. CASE k < j
  <2>1. k + 1 \in 1..Len(s) /\ j \in (k + 1)..Len(s)
    BY <1>1, <1>2
  <2>2. \A i \in (k + 1)..j : s[i] \in S
    BY <1>1, ElementOfSeq
  <2>3. Len(SubSeq(s, k + 1, j)) = j - (k + 1) + 1
    BY <2>1, <2>2, SubSeqProperties
  <2>4. SubSeq(s, k + 1, j) # <<>>
    BY <1>2, <2>3, EmptySeq
  <2> QED
    BY <1>2, <2>1, <2>4, HeadTailOfSubSeq
<1>3. CASE ~(k < j)
  BY <1>3, SubSeqEmpty
<1> QED
  BY <1>2, <1>3

LEMMA StreamSend ==
  ASSUME TypeOK, Shape, NEW c \in Clients, NEW png \in Pngs, Streaming(c, png),
         Send(c) \/ CloseSend(c), UNCHANGED <<h, hdr, buf>>
  PROVE  Streaming(c, png)'
<1>1. PICK size \in ChunkBytes, k \in Nat, j \in Nat :
        Sends(c, Script(png, size), k, j) /\ Collects(c, png, size, k)
  BY DEF Streaming
<1> DEFINE s == Script(png, size)
<1>2. PICK S : s \in Seq(S)
  BY ScriptFacts
<1>3. Len(s) \in Nat /\ Len(s) >= 2 /\ s[Len(s)] = Eof
  BY ScriptFacts
<1>4. Collects(c, png, size, k)'
  BY <1>1 DEF Collects
<1> HIDE DEF s
<1>5. Sends(c, s, k, j)
  BY <1>1 DEF s
<1>6. SUFFICES Sends(c, s, k, j + 1)'
  BY <1>4 DEF s, Streaming
<1>7. cli[c] = "send" /\ j < Len(s)
  BY <1>5 DEF Send, CloseSend, Sends
<1>8. Append(up[c], s[j + 1]) = SubSeq(s, k + 1, j + 1)
  BY <1>2, <1>5, <1>7, OneMore DEF Sends
<1>9. /\ SubSeq(s, j + 1, Len(s) - 1) # <<>> <=> j < Len(s) - 1
      /\ j < Len(s) - 1
           => /\ Head(SubSeq(s, j + 1, Len(s) - 1)) = s[j + 1]
              /\ Tail(SubSeq(s, j + 1, Len(s) - 1)) = SubSeq(s, (j + 1) + 1, Len(s) - 1)
  <2>1. Len(s) - 1 \in Nat /\ Len(s) - 1 <= Len(s)
    BY <1>3
  <2> QED
    BY <1>2, <2>1, OneLess
<1>10. CASE Send(c)
  <2>1. todo[c] # <<>>
    BY <1>10 DEF Send
  <2>2. j < Len(s) - 1 /\ Head(todo[c]) = s[j + 1]
        /\ Tail(todo[c]) = SubSeq(s, (j + 1) + 1, Len(s) - 1)
    BY <1>5, <1>9, <2>1 DEF Sends
  <2>3. /\ up'[c] = SubSeq(s, k + 1, j + 1)
        /\ todo'[c] = SubSeq(s, (j + 1) + 1, Len(s) - 1)
        /\ cli'[c] = "send"
    BY <1>7, <1>8, <1>10, <2>2 DEF Send, Shape
  <2>4. k <= j + 1 /\ j + 1 <= Len(s) /\ j + 1 < Len(s)
    <3>1. k <= j
      BY <1>5 DEF Sends
    <3> QED
      BY <1>3, <2>2, <3>1
  <2> QED
    BY <2>3, <2>4 DEF Sends
<1>11. CASE CloseSend(c)
  <2>1. todo[c] = <<>>
    BY <1>11 DEF CloseSend
  <2>2. ~(j < Len(s) - 1)
    BY <1>5, <1>9, <2>1 DEF Sends
  <2>3. j + 1 = Len(s)
    BY <1>3, <1>7, <2>2
  <2>4. /\ up'[c] = SubSeq(s, k + 1, j + 1)
        /\ todo'[c] = <<>>
    BY <1>3, <1>8, <1>11, <2>1, <2>3 DEF CloseSend, Shape
  <2>5. SubSeq(s, (j + 1) + 1, Len(s) - 1) = <<>>
    BY <1>3, <2>3, SubSeqEmpty
  <2>6. k <= j + 1
    <3>1. k <= j
      BY <1>5 DEF Sends
    <3> QED
      BY <3>1
  <2>7. cli'[c] = "wait"
    BY <1>11 DEF CloseSend, TypeOK
  <2> QED
    BY <2>3, <2>4, <2>5, <2>6, <2>7 DEF Sends
<1> QED
  BY <1>10, <1>11

LEMMA AtMostBounds ==
  ASSUME NEW n \in Nat, NEW max \in Nat
  PROVE  AtMost(n, max) \in 0..max /\ AtMost(n, max) <= n
         /\ (n <= max => AtMost(n, max) = n)
BY DEF AtMost

(* Chunks put together are the beginning of the packed picture.             *)
LEMMA ChunkJoins ==
  ASSUME NEW png \in Pngs, NEW size \in ChunkBytes, NEW k \in Nat, k > 0
  PROVE  LET bytes == PackPNGGrayscale4(png)
         IN  FirstBytes(png, size, k - 1)
               \o SubSeq(bytes, (k - 1) * size + 1, AtMost(k * size, Len(bytes)))
             = FirstBytes(png, size, k)
<1> DEFINE bytes == PackPNGGrayscale4(png)
           from == (k - 1) * size
           to == k * size
<1>1. PICK S : bytes \in Seq(S)
  BY PackedIsSeq
<1>2. Len(bytes) \in Nat /\ size \in Nat \ {0}
  BY PackedIsSeq, CliAssumption
<1>3. from \in Nat /\ to \in Nat /\ from <= to
  <2>1. k - 1 \in Nat /\ k = (k - 1) + 1
    OBVIOUS
  <2>2. \A m \in Nat : m * size \in Nat /\ (m + 1) * size \in Nat
                       /\ m * size <= (m + 1) * size
    BY <1>2
  <2> QED
    BY <2>1, <2>2
<1> SUFFICES SubSeq(bytes, 1, AtMost(from, Len(bytes)))
               \o SubSeq(bytes, from + 1, AtMost(to, Len(bytes)))
             = SubSeq(bytes, 1, AtMost(to, Len(bytes)))
  BY DEF FirstBytes
<1> HIDE DEF bytes, from, to
<1>4. CASE from <= Len(bytes)
  <2>1. AtMost(from, Len(bytes)) = from
    BY <1>2, <1>3, <1>4, AtMostBounds
  <2>2. AtMost(to, Len(bytes)) \in from..Len(bytes)
    BY <1>2, <1>3, <1>4 DEF AtMost
  <2>3. 1 \in 1..(Len(bytes) + 1) /\ from \in (1 - 1)..Len(bytes)
    BY <1>2, <1>3, <1>4
  <2> QED
    BY <1>1, <2>1, <2>2, <2>3, ConcatAdjacentSubSeq
<1>5. CASE ~(from <= Len(bytes))
  <2>1. AtMost(from, Len(bytes)) = Len(bytes) /\ AtMost(to, Len(bytes)) = Len(bytes)
    BY <1>2, <1>3, <1>5 DEF AtMost
  <2>2. SubSeq(bytes, from + 1, Len(bytes)) = <<>>
    BY <1>2, <1>3, <1>5, SubSeqEmpty
  <2>3. SubSeq(bytes, 1, Len(bytes)) = bytes
    BY <1>1, SubSeqFull
  <2> QED
    BY <1>1, <2>1, <2>2, <2>3, ConcatEmptySeq
<1> QED
  BY <1>4, <1>5

(* A beginning of the length of the whole is the whole.                     *)
LEMMA AllBytes ==
  ASSUME NEW png \in Pngs, NEW size \in ChunkBytes, NEW k \in Nat,
         Len(FirstBytes(png, size, k)) = Len(PackPNGGrayscale4(png))
  PROVE  FirstBytes(png, size, k) = PackPNGGrayscale4(png)
<1> DEFINE bytes == PackPNGGrayscale4(png)
           q == AtMost(k * size, Len(bytes))
<1>1. PICK S : bytes \in Seq(S)
  BY PackedIsSeq
<1>2. Len(bytes) \in Nat /\ size \in Nat
  BY PackedIsSeq, CliAssumption
<1>3. k * size \in Nat
  BY <1>2
<1>4. q \in 0..Len(bytes)
  BY <1>2, <1>3, AtMostBounds
<1>5. FirstBytes(png, size, k) = SubSeq(bytes, 1, q)
  BY DEF FirstBytes
<1> HIDE DEF q, bytes
<1>6. Len(SubSeq(bytes, 1, q)) = q
  <2>1. \A i \in 1..q : bytes[i] \in S
    BY <1>1, <1>2, <1>4, ElementOfSeq
  <2>2. Len(SubSeq(bytes, 1, q)) = IF 1 <= q THEN q - 1 + 1 ELSE 0
    BY <1>4, <2>1, SubSeqProperties
  <2> QED
    BY <1>2, <1>4, <2>2
<1>7. q = Len(bytes)
  BY <1>5, <1>6 DEF bytes
<1> QED
  BY <1>1, <1>5, <1>7, SubSeqFull DEF bytes

LEMMA NoBytes ==
  ASSUME NEW png \in Pngs, NEW size \in ChunkBytes
  PROVE  FirstBytes(png, size, 0) = <<>>
<1>1. Len(PackPNGGrayscale4(png)) \in Nat /\ size \in Nat
  BY PackedIsSeq, CliAssumption
<1>2. 0 * size = 0
  BY <1>1
<1>3. AtMost(0 * size, Len(PackPNGGrayscale4(png))) = 0
  BY <1>1, <1>2 DEF AtMost
<1> QED
  BY <1>3, SubSeqEmpty DEF FirstBytes

(* The handler takes the next message of the script, or refuses it.         *)
LEMMA StreamRecv ==
  ASSUME TypeOK, Shape, NEW c \in Clients, HandlerOf(c), main # "exit",
         NEW png \in Pngs, Streaming(c, png),
         RecvHeader(c) \/ RecvChunk(c) \/ RecvEof(c), ~Reply(c, "error")
  PROVE  Streaming(c, png)'
<1>1. PICK size \in ChunkBytes, k \in Nat, j \in Nat :
        Sends(c, Script(png, size), k, j) /\ Collects(c, png, size, k)
  BY DEF Streaming
<1> DEFINE s == Script(png, size)
           bytes == PackPNGGrayscale4(png)
<1>2. PICK S : s \in Seq(S)
  BY ScriptFacts
<1>3. /\ Len(s) \in Nat /\ Len(s) >= 2 /\ s[Len(s)] = Eof
      /\ s[1] = Header(Len(bytes), 4, Whole(png))
      /\ \A i \in 2..(Len(s) - 1) :
           s[i] = Data(SubSeq(bytes, (i - 2) * size + 1,
                              AtMost((i - 1) * size, Len(bytes))))
  BY ScriptFacts
<1> HIDE DEF s
<1>4. Sends(c, s, k, j)
  BY <1>1 DEF s
<1>5. k <= j /\ j <= Len(s) /\ up[c] = SubSeq(s, k + 1, j)
  BY <1>4 DEF Sends
<1>6. /\ up[c] # <<>> <=> k < j
      /\ k < j => /\ Head(up[c]) = s[k + 1]
                  /\ Tail(up[c]) = SubSeq(s, (k + 1) + 1, j)
  BY <1>2, <1>5, OneLess
<1>7. up[c] # <<>>
  BY DEF RecvHeader, RecvChunk, RecvEof
<1>8. k + 1 <= j /\ k + 1 \in Nat /\ (k + 1) - 1 = k
  <2>1. k < j
    BY <1>6, <1>7
  <2> QED
    BY <2>1
<1>9. ASSUME up' = [up EXCEPT ![c] = Tail(@)], UNCHANGED <<cli, todo>>
      PROVE  Sends(c, s, k + 1, j)'
  <2>1. up'[c] = SubSeq(s, (k + 1) + 1, j)
    BY <1>6, <1>7, <1>9 DEF Shape
  <2> QED
    BY <1>4, <1>8, <1>9, <2>1 DEF Sends
<1>10. CASE RecvHeader(c)
  <2>1. /\ h[c] = "LoadImage" /\ h' = [h EXCEPT ![c] = "recv"]
        /\ hdr' = [hdr EXCEPT ![c] = Head(up[c])]
        /\ up' = [up EXCEPT ![c] = Tail(@)]
        /\ UNCHANGED <<buf, cli, todo>>
    BY <1>10 DEF RecvHeader
  <2>2. k = 0
    BY <1>1, <2>1 DEF Collects
  <2>3. h'[c] = "recv" /\ hdr'[c] = s[1] /\ buf'[c] = <<>>
    BY <1>6, <1>7, <2>1, <2>2 DEF TypeOK, Shape, HandlerOf
  <2>4. buf'[c] = FirstBytes(png, size, k)
    BY <2>2, <2>3, NoBytes
  <2>5. 0 < k + 1 /\ k + 1 < Len(s)
    BY <1>3, <2>2
  <2>6. Collects(c, png, size, k + 1)'
    BY <1>8, <2>3, <2>4, <2>5 DEF Collects, s
  <2> QED
    BY <1>8, <1>9, <2>1, <2>6 DEF Streaming, s
<1>11. CASE RecvChunk(c)
  <2>1. /\ h[c] = "recv" /\ Head(up[c]).kind # "eof"
        /\ buf' = [buf EXCEPT ![c] = @ \o Head(up[c]).data]
        /\ up' = [up EXCEPT ![c] = Tail(@)]
        /\ UNCHANGED <<h, hdr, cli, todo>>
    BY <1>11 DEF RecvChunk
  <2>2. 0 < k /\ k < Len(s) /\ hdr[c] = s[1] /\ buf[c] = FirstBytes(png, size, k - 1)
    BY <1>1, <2>1 DEF Collects, s
  <2>3. k + 1 # Len(s)
    BY <1>3, <1>6, <1>7, <2>1 DEF Eof
  <2>4. k + 1 \in 2..(Len(s) - 1) /\ (k + 1) - 2 = k - 1
    BY <1>3, <2>2, <2>3
  <2>5. Head(up[c]) = Data(SubSeq(bytes, (k - 1) * size + 1,
                                  AtMost(k * size, Len(bytes))))
    <3>1. s[k + 1] = Data(SubSeq(bytes, ((k + 1) - 2) * size + 1,
                                 AtMost(((k + 1) - 1) * size, Len(bytes))))
      BY <1>3, <2>4
    <3> QED
      BY <1>6, <1>7, <1>8, <2>4, <3>1
  <2>6. buf'[c] = FirstBytes(png, size, k)
    <3>1. Head(up[c]).data = SubSeq(bytes, (k - 1) * size + 1,
                                    AtMost(k * size, Len(bytes)))
      BY <2>5 DEF Data
    <3>2. buf'[c] = FirstBytes(png, size, k - 1) \o Head(up[c]).data
      BY <2>1, <2>2 DEF Shape
    <3> QED
      BY <2>2, <3>1, <3>2, ChunkJoins
  <2>7. 0 < k + 1 /\ k + 1 < Len(s)
    BY <1>3, <2>4
  <2>8. Collects(c, png, size, k + 1)'
    BY <1>8, <2>1, <2>2, <2>6, <2>7 DEF Collects, s
  <2> QED
    BY <1>8, <1>9, <2>1, <2>8 DEF Streaming, s
<1>12. CASE RecvEof(c)
  <2>1. /\ h[c] = "recv" /\ Len(buf[c]) = hdr[c].total
        /\ h' = [h EXCEPT ![c] = "load"]
        /\ UNCHANGED <<hdr, buf, cli, up, todo>>
    BY <1>12 DEF RecvEof, cliVars
  <2>2. 0 < k /\ hdr[c] = s[1] /\ buf[c] = FirstBytes(png, size, k - 1)
    BY <1>1, <2>1 DEF Collects, s
  <2>3. hdr[c].total = Len(bytes)
    BY <1>3, <2>2 DEF Header
  <2>4. k - 1 \in Nat
    BY <2>2
  <2>5. buf[c] = bytes
    BY <2>1, <2>2, <2>3, <2>4, AllBytes
  <2>6. h'[c] = "load" /\ hdr'[c] = s[1] /\ buf'[c] = bytes
    BY <2>1, <2>2, <2>5 DEF TypeOK
  <2>7. Collects(c, png, size, k)'
    BY <2>6 DEF Collects, s
  <2>8. Sends(c, s, k, j)'
    BY <1>4, <2>1 DEF Sends
  <2> QED
    BY <2>7, <2>8 DEF Streaming, s
<1> QED
  BY <1>10, <1>11, <1>12

-----------------------------------------------------------------------------
(* Steps of others, and steps that end in no good answer.                   *)

Same(d) ==
  /\ cli'[d] = cli[d] /\ cmd'[d] = cmd[d] /\ rpc'[d] = rpc[d] /\ out'[d] = out[d]
  /\ todo'[d] = todo[d] /\ up'[d] = up[d] /\ down'[d] = down[d]
  /\ h'[d] = h[d] /\ hdr'[d] = hdr[d] /\ buf'[d] = buf[d]

(* The panel is left alone, but for a drawing that comes to its end.        *)
PanelKept(d) ==
  /\ alone'[d] = alone[d] /\ UNCHANGED mem
  /\ drive = Still => UNCHANGED <<glass, drive>>

LEMMA Elsewhere ==
  ASSUME NEW d, HandlerOf(d), PushOf(d), Same(d),
         main' = "exit" \/ main # "exit",
         alone'[d] = FALSE \/ PanelKept(d)
  PROVE  HandlerOf(d)' /\ PushOf(d)'
<1>1. HandlerOf(d)'
  BY DEF Same, HandlerOf
<1>2. Streaming(d, cmd[d].png) => Streaming(d, cmd[d].png)'
  BY DEF Same, Streaming, Sends, Collects
<1>3. PushOf(d)'
  BY <1>2 DEF Same, PanelKept, PushOf, Pushed, Good
<1> QED
  BY <1>1, <1>3

(* What a reply does at its own client.                                     *)
Gets(c, a) ==
  /\ cli'[c] = cli[c] /\ cmd'[c] = cmd[c] /\ rpc'[c] = rpc[c] /\ out'[c] = out[c]
  /\ down'[c] = IF rpc[c] # "none" /\ down[c] = "none" THEN a ELSE down[c]

LEMMA ReplyDoes ==
  ASSUME TypeOK, Shape, NEW c \in Clients, NEW a, Reply(c, a)
  PROVE  /\ Shape' /\ \A d \in Clients \ {c} : Same(d)
         /\ Gets(c, a) /\ h'[c] = "none" /\ buf'[c] = <<>>
<1>1. DOMAIN h = Clients /\ DOMAIN down = Clients
  BY DEF TypeOK
<1>2. Shape'
  BY DEF Shape, Reply
<1>3. \A d \in Clients \ {c} : Same(d)
  BY <1>1 DEF Shape, Reply, Same
<1>4. Gets(c, a) /\ h'[c] = "none" /\ buf'[c] = <<>>
  BY <1>1 DEF Shape, Reply, Gets
<1> QED
  BY <1>2, <1>3, <1>4

(* An answer that is no good answer to a push.                              *)
LEMMA NoGoodAnswer ==
  ASSUME NEW c, HandlerOf(c), PushOf(c),
         NEW a \in {"ok", "error", "cut"}, Gets(c, a),
         h'[c] = "none" \/ (a = "cut" /\ h'[c] = h[c]),
         main' = "exit" \/ (main # "exit" /\ buf'[c] = buf[c] /\ h'[c] = h[c])
           \/ buf'[c] = <<>>,
         h[c] # "none" \/ PanelKept(c),
         Pushed(c) /\ rpc[c] # "none" /\ down[c] = "none" => a # "ok"
  PROVE  HandlerOf(c)' /\ PushOf(c)'
<1>1. HandlerOf(c)'
  BY DEF Gets, HandlerOf
<1>2. PushOf(c)'
  <2> SUFFICES ASSUME Pushed(c)'
               PROVE  PushOf(c)'
    BY DEF PushOf
  <2>1. Pushed(c)
    BY DEF Pushed, Gets
  <2>2. ~(rpc'[c] # "none" /\ down'[c] = "none")
    BY DEF Gets
  <2>3. /\ cmd'[c].png \in Pngs /\ Packs4(cmd'[c].png) /\ Known(cmd'[c].mode)
        /\ rpc'[c] \in {"LoadImage", "Refresh", "none"}
    BY <2>1 DEF Gets, PushOf
  <2>4. ((down'[c] = "ok" /\ rpc'[c] # "none") \/ out'[c] = "ok")
          => PanelKept(c) /\ (down'[c] = "ok" => down[c] = "ok")
    BY <2>1 DEF Gets, HandlerOf
  <2>5. ~(rpc'[c] = "LoadImage" /\ down'[c] = "none")
        /\ ~(rpc'[c] = "Refresh" /\ down'[c] = "none")
    BY <2>2
  <2>6. alone'[c] /\ rpc'[c] = "LoadImage" /\ down'[c] = "ok"
          => mem' = Image(cmd'[c].png)
    BY <2>1, <2>4 DEF Gets, PushOf, PanelKept
  <2>7. alone'[c] /\ ((rpc'[c] = "Refresh" /\ down'[c] = "ok") \/ out'[c] = "ok")
          => drive' = Still /\ glass' = Good(c)'
    BY <2>1, <2>4 DEF Gets, PushOf, PanelKept, Good
  <2> QED
    BY <2>3, <2>5, <2>6, <2>7 DEF PushOf
<1> QED
  BY <1>1, <1>2

-----------------------------------------------------------------------------
(* The handlers.                                                            *)

PanelFree(c) == \A d \in Clients \ {c} : alone'[d] = FALSE \/ PanelKept(d)

Alone(c) ==
  /\ Shape'
  /\ \A d \in Clients \ {c} : Same(d)
  /\ PanelFree(c)

LEMMA LeaveFree ==
  ASSUME NEW c, NEW mine, Leave(c, mine)
  PROVE  PanelFree(c)
BY DEF Leave, PanelFree

LEMMA PlainReply ==
  ASSUME TypeOK, Shape, NEW c \in Clients, HandlerOf(c), PushOf(c),
         NEW a \in {"ok", "error"}, Reply(c, a),
         a = "ok" => h[c] \notin {"none", "LoadImage", "recv", "load", "Refresh"},
         h[c] # "none" \/ PanelKept(c),
         PanelFree(c)
  PROVE  Alone(c) /\ HandlerOf(c)' /\ PushOf(c)'
<1>1. /\ Shape' /\ \A d \in Clients \ {c} : Same(d)
      /\ Gets(c, a) /\ h'[c] = "none" /\ buf'[c] = <<>>
  BY ReplyDoes
<1>2. Pushed(c) /\ rpc[c] # "none" /\ down[c] = "none" => a # "ok"
  BY DEF HandlerOf, PushOf, Cred
<1>3. HandlerOf(c)' /\ PushOf(c)'
  BY <1>1, <1>2, NoGoodAnswer
<1> QED
  BY <1>1, <1>3 DEF Alone

LEMMA WholeIsRegion ==
  ASSUME NEW png \in Pngs, Packs4(png)
  PROVE  Whole(png) # NoRegion
<1>1. Whole(png).w # NoRegion.w
  BY PngSize DEF Whole, NoRegion, Packs4
<1> QED
  BY <1>1

(* The handler makes of header and buffer what was pushed.                  *)
LEMMA LoadedRight ==
  ASSUME NEW c \in Clients, NEW png \in Pngs, Packs4(png),
         Streaming(c, png), h[c] = "load"
  PROVE  Loaded(c) = Image(png)
<1>1. PICK size \in ChunkBytes, k \in Nat, j \in Nat : Collects(c, png, size, k)
  BY DEF Streaming
<1> DEFINE bytes == PackPNGGrayscale4(png)
<1>2. hdr[c] = Header(Len(bytes), 4, Whole(png)) /\ buf[c] = bytes
  BY <1>1, ScriptFacts DEF Collects
<1> HIDE DEF bytes
<1>3. hdr[c].region = Whole(png) /\ hdr[c].bpp = 4
  BY <1>2 DEF Header
<1>4. \A total : dimsFromHeader(Whole(png), total, 4) = <<png.w, png.h>>
  BY WholeIsRegion DEF dimsFromHeader, Whole
<1> QED
  BY <1>2, <1>3, <1>4 DEF Loaded, Image, bytes

(* And the panel draws of it what was meant.                                *)
LEMMA DrawnRight ==
  ASSUME NEW png \in Pngs, Packs4(png), NEW mode, Known(mode), mem = Image(png)
  PROVE  Drawn(parseWaveform(mode)) = [img |-> Levels(png), mode |-> mode]
<1>1. mem # Torn
  BY TornAssumption
<1>2. mem.pixels = PackPNGGrayscale4(png)
      /\ mem.words = AreaWords(4, png.w, png.h, Whole(png))
  BY DEF Image
<1>3. Complete(mem.pixels, mem.words) /\ Shown(mem.pixels, mem.words) = Levels(png)
  BY <1>2, PngSize, PackFaithful DEF Whole
<1>4. ModeString(translateMode(parseWaveform(mode))) = mode
  BY WaveformKept
<1> QED
  BY <1>1, <1>3, <1>4 DEF Drawn

LEMMA LoadPush ==
  ASSUME TypeOK, Shape, NEW c \in Clients, HandlerOf(c), PushOf(c), LoadImage(c)
  PROVE  Alone(c) /\ HandlerOf(c)' /\ PushOf(c)'
<1>1. /\ h[c] = "load" /\ Reply(c, "ok") /\ Leave(c, TRUE)
      /\ mem' = Loaded(c)
  BY DEF LoadImage
<1>2. /\ Shape' /\ \A d \in Clients \ {c} : Same(d)
      /\ Gets(c, "ok") /\ h'[c] = "none" /\ buf'[c] = <<>>
  BY <1>1, ReplyDoes
<1>3. Alone(c)
  BY <1>1, <1>2, LeaveFree DEF Alone
<1>4. CASE Pushed(c) /\ rpc[c] # "none" /\ down[c] = "none"
  <2>1. rpc[c] = "LoadImage" /\ out[c] = "none"
    BY <1>1, <1>4 DEF HandlerOf, PushOf, Cred
  <2>2. /\ cmd[c].png \in Pngs /\ Packs4(cmd[c].png) /\ Known(cmd[c].mode)
        /\ Streaming(c, cmd[c].png)
    BY <1>4, <2>1 DEF PushOf
  <2>3. PICK png \in Pngs : png = cmd[c].png
    BY <2>2
  <2>4. Streaming(c, png) /\ Packs4(png)
    BY <2>2, <2>3
  <2>5. mem' = Image(cmd'[c].png)
    BY <1>1, <1>2, <2>3, <2>4, LoadedRight DEF Gets
  <2>6. rpc'[c] = "LoadImage" /\ down'[c] = "ok" /\ out'[c] = "none"
    BY <1>2, <1>4, <2>1 DEF Gets
  <2>7. HandlerOf(c)'
    BY <1>2, <2>6 DEF HandlerOf
  <2>8. PushOf(c)'
    BY <1>2, <2>2, <2>5, <2>6 DEF Gets, PushOf
  <2> QED
    BY <1>3, <2>7, <2>8
<1>5. CASE ~(Pushed(c) /\ rpc[c] # "none" /\ down[c] = "none")
  BY <1>1, <1>2, <1>3, <1>5, NoGoodAnswer
<1> QED
  BY <1>4, <1>5

LEMMA RefreshPush ==
  ASSUME TypeOK, Shape, NEW c \in Clients, HandlerOf(c), PushOf(c), Refresh(c)
  PROVE  Alone(c) /\ HandlerOf(c)' /\ PushOf(c)'
<1>1. /\ h[c] = "Refresh" /\ Reply(c, "ok")
      /\ Leave(c, alone[c] /\ drive = Still)
      /\ glass' \in Starts(Drawn(parseWaveform(cmd[c].mode)))
      /\ drive' = Still /\ mem' = mem
  BY DEF Refresh
<1>2. /\ Shape' /\ \A d \in Clients \ {c} : Same(d)
      /\ Gets(c, "ok") /\ h'[c] = "none" /\ buf'[c] = <<>>
  BY <1>1, ReplyDoes
<1>3. Alone(c)
  BY <1>1, <1>2 DEF Leave, PanelFree, Alone
<1>4. CASE Pushed(c) /\ rpc[c] # "none" /\ down[c] = "none"
  <2>1. rpc[c] = "Refresh" /\ out[c] = "none"
    BY <1>1, <1>4 DEF HandlerOf, Cred
  <2>2. /\ cmd[c].png \in Pngs /\ Packs4(cmd[c].png) /\ Known(cmd[c].mode)
        /\ alone[c] => mem = Image(cmd[c].png)
    BY <1>4, <2>1 DEF PushOf
  <2>3. PICK png \in Pngs : png = cmd[c].png
    BY <2>2
  <2>4. PICK mode : mode = cmd[c].mode
    OBVIOUS
  <2>5. alone[c] /\ drive = Still => glass' = [img |-> Levels(png), mode |-> mode]
    BY <1>1, <2>2, <2>3, <2>4, DrawnRight DEF Starts
  <2>6. alone'[c] => alone[c] /\ drive = Still
    BY <1>1 DEF Leave
  <2>7. alone'[c] => glass' = Good(c)'
    BY <1>2, <2>3, <2>4, <2>5, <2>6 DEF Gets, Good
  <2>8. rpc'[c] = "Refresh" /\ down'[c] = "ok" /\ out'[c] = "none"
    BY <1>2, <1>4, <2>1 DEF Gets
  <2>9. HandlerOf(c)'
    BY <1>2, <2>8 DEF HandlerOf
  <2>10. PushOf(c)'
    BY <1>1, <1>2, <2>2, <2>7, <2>8 DEF Gets, PushOf
  <2> QED
    BY <1>3, <2>9, <2>10
<1>5. CASE ~(Pushed(c) /\ rpc[c] # "none" /\ down[c] = "none")
  BY <1>1, <1>2, <1>3, <1>5, NoGoodAnswer
<1> QED
  BY <1>4, <1>5

(* No client and nothing at the panel changes.                              *)
LEMMA NothingMoves ==
  ASSUME Shape, NEW c \in Clients, HandlerOf(c), PushOf(c),
         UNCHANGED <<cliVars, handler, main, mem, glass, drive, alone>>
  PROVE  Alone(c) /\ HandlerOf(c)' /\ PushOf(c)'
<1>1. \A d \in Clients : Same(d) /\ PanelKept(d)
  BY DEF cliVars, handler, Same, PanelKept
<1>2. Alone(c)
  BY <1>1 DEF Alone, PanelFree, Shape, cliVars, handler
<1>3. HandlerOf(c)' /\ PushOf(c)'
  <2>1. CASE main # "exit"
    BY <1>1, <2>1, Elsewhere
  <2>2. CASE main = "exit"
    BY <1>1, <2>2, Elsewhere
  <2> QED
    BY <2>1, <2>2
<1> QED
  BY <1>2, <1>3

LEMMA RecvPush ==
  ASSUME TypeOK, Shape, NEW c \in Clients, HandlerOf(c), PushOf(c),
         main # "exit", UNCHANGED main,
         RecvHeader(c) \/ RecvChunk(c) \/ RecvEof(c) \/ RecvBroken(c)
  PROVE  Alone(c) /\ HandlerOf(c)' /\ PushOf(c)'
<1>1. h[c] \in {"LoadImage", "recv"} /\ UNCHANGED panel
  BY DEF RecvHeader, RecvChunk, RecvEof, RecvBroken
<1>2. PanelFree(c) /\ PanelKept(c)
  BY <1>1 DEF panel, PanelFree, PanelKept
<1>3. CASE Reply(c, "error")
  BY <1>2, <1>3, PlainReply
<1>4. CASE ~Reply(c, "error")
  <2>1. /\ h' = h \/ h' = [h EXCEPT ![c] = "recv"] \/ h' = [h EXCEPT ![c] = "load"]
        /\ h'[c] \in {"recv", "load"}
        /\ hdr' = hdr \/ hdr' = [hdr EXCEPT ![c] = Head(up[c])]
        /\ buf' = buf \/ buf' = [buf EXCEPT ![c] = @ \o Head(up[c]).data]
        /\ up' = up \/ up' = [up EXCEPT ![c] = Tail(@)]
        /\ UNCHANGED <<cli, cmd, rpc, todo, down, out>>
    BY <1>4 DEF RecvHeader, RecvChunk, RecvEof, RecvBroken, cliVars, TypeOK
  <2>2. Alone(c)
    <3>1. DOMAIN h = Clients
      BY DEF TypeOK
    <3>2. Shape'
      BY <2>1 DEF Shape
    <3>3. \A d \in Clients \ {c} : Same(d)
      BY <2>1, <3>1 DEF Shape, Same
    <3> QED
      BY <1>2, <3>2, <3>3 DEF Alone
  <2>3. HandlerOf(c)'
    <3>1. h[c] \in {"LoadImage", "recv"}
      BY <1>1
    <3>2. rpc[c] # "none" /\ down[c] = "none" => rpc[c] = "LoadImage"
      BY <3>1 DEF HandlerOf, TypeOK, Methods
    <3>3. down[c] \notin {"ok", "error"} /\ out[c] # "ok"
      BY <3>1 DEF HandlerOf
    <3> QED
      BY <2>1, <3>2, <3>3 DEF HandlerOf
  <2>4. PushOf(c)'
    <3>1. ASSUME Pushed(c), rpc[c] = "LoadImage", down[c] = "none"
          PROVE  Streaming(c, cmd[c].png)'
      <4>1. cmd[c].png \in Pngs /\ Streaming(c, cmd[c].png)
        BY <3>1 DEF PushOf
      <4>2. PICK png \in Pngs : png = cmd[c].png
        BY <4>1
      <4>3. Streaming(c, png)
        BY <4>1, <4>2
      <4>4. ~RecvBroken(c)
        BY <1>4 DEF RecvBroken
      <4>5. Streaming(c, png)'
        BY <1>4, <4>3, <4>4, StreamRecv
      <4>6. cmd'[c].png = png
        BY <2>1, <4>2
      <4> QED
        BY <4>5, <4>6 DEF Streaming, Sends, Collects
    <3> QED
      BY <1>2, <2>1, <3>1 DEF PanelKept, PushOf, Pushed, Good
  <2> QED
    BY <2>2, <2>3, <2>4
<1> QED
  BY <1>3, <1>4

LEMMA HandlerPush ==
  ASSUME TypeOK, Shape, NEW c \in Clients, HandlerOf(c), PushOf(c),
         main # "exit", UNCHANGED main, HandlerStep(c)
  PROVE  Alone(c) /\ HandlerOf(c)' /\ PushOf(c)'
<1>1. ASSUME NEW a \in {"ok", "error"}, Reply(c, a), UNCHANGED <<mem, glass, drive, alone>>,
             a = "ok" => h[c] \notin {"none", "LoadImage", "recv", "load", "Refresh"}
      PROVE  Alone(c) /\ HandlerOf(c)' /\ PushOf(c)'
  <2>1. PanelFree(c) /\ PanelKept(c)
    BY <1>1 DEF PanelFree, PanelKept
  <2> QED
    BY <1>1, <2>1, PlainReply
<1>2. CASE GetInfo(c) \/ Health(c) \/ GetPullMode(c) \/ GetMetrics(c) \/ NoDisplay(c)
  <2>1. PICK a \in {"ok", "error"} :
          /\ Reply(c, a) /\ UNCHANGED panel
          /\ a = "ok" => h[c] \in {"GetInfo", "Health", "GetPullMode", "GetMetrics"}
    BY <1>2 DEF GetInfo, Health, GetPullMode, GetMetrics, NoDisplay, Reads
  <2> QED
    BY <1>1, <2>1 DEF panel
<1>3. CASE SetPullMode(c)
  <2>1. PICK a \in {"ok", "error"} : Reply(c, a)
    BY <1>3 DEF SetPullMode
  <2>2. h[c] = "SetPullMode" /\ UNCHANGED panel
    BY <1>3 DEF SetPullMode
  <2> QED
    BY <1>1, <2>1, <2>2 DEF panel
<1>4. CASE RecvHeader(c) \/ RecvChunk(c) \/ RecvEof(c) \/ RecvBroken(c)
  BY <1>4, RecvPush
<1>5. CASE Take(c)
  <2>1. UNCHANGED <<cliVars, handler, main, mem, glass, drive, alone>>
    BY <1>5 DEF Take
  <2> QED
    BY <2>1, NothingMoves
<1>6. CASE LoadImage(c)
  BY <1>6, LoadPush
<1>7. CASE Refresh(c)
  BY <1>7, RefreshPush
<1>8. CASE PowerDown(c)
  <2>1. h[c] \in {"Sleep", "Standby"} /\ Reply(c, "ok") /\ PanelFree(c)
    BY <1>8, LeaveFree DEF PowerDown
  <2> QED
    BY <2>1, PlainReply
<1>9. CASE PanelFails(c)
  <2>1. h[c] # "none" /\ Reply(c, "error") /\ PanelFree(c)
    BY <1>9, LeaveFree DEF PanelFails, AtPanel
  <2> QED
    BY <2>1, PlainReply
<1>10. CASE Rotate(c) \/ ReissueClientCert(c)
  <2>1. /\ h[c] \in Cred /\ h' = [h EXCEPT ![c] = "answer"]
        /\ UNCHANGED <<cliVars, hdr, buf, panel>>
    BY <1>10 DEF Rotate, ReissueClientCert, Replaced, Cred
  <2>2. Shape' /\ \A d \in Clients \ {c} : Same(d)
    <3>1. DOMAIN h = Clients
      BY DEF TypeOK
    <3> QED
      BY <2>1, <3>1 DEF Shape, Same, cliVars
  <2>3. PanelFree(c) /\ PanelKept(c)
    BY <2>1 DEF panel, PanelFree, PanelKept
  <2>4. h'[c] = "answer"
    BY <2>1 DEF TypeOK
  <2>5. HandlerOf(c)'
    BY <2>1, <2>4 DEF HandlerOf, cliVars, Cred
  <2>6. ~(Pushed(c) /\ rpc[c] # "none" /\ down[c] = "none")
    BY <2>1 DEF HandlerOf, PushOf, Cred
  <2>7. PushOf(c)'
    BY <2>1, <2>3, <2>6 DEF PushOf, Pushed, Good, PanelKept, cliVars
  <2> QED
    BY <2>2, <2>3, <2>5, <2>7 DEF Alone
<1>11. CASE StoreFails(c)
  <2>1. Reply(c, "error") /\ UNCHANGED panel
    BY <1>11 DEF StoreFails
  <2> QED
    BY <1>1, <2>1 DEF panel
<1> QED
  BY <1>2, <1>3, <1>4, <1>5, <1>6, <1>7, <1>8, <1>9, <1>10, <1>11 DEF HandlerStep

-----------------------------------------------------------------------------
(* The clients.                                                             *)

LEMMA SendPush ==
  ASSUME TypeOK, Shape, NEW c \in Clients, HandlerOf(c), PushOf(c),
         Send(c) \/ CloseSend(c),
         UNCHANGED <<handler, main, mem, glass, drive, alone>>
  PROVE  Alone(c) /\ HandlerOf(c)' /\ PushOf(c)'
<1>1. /\ UNCHANGED <<h, hdr, buf, cmd, rpc, down, out>>
      /\ cli' = cli \/ cli' = [cli EXCEPT ![c] = "wait"]
      /\ todo' = todo \/ todo' = [todo EXCEPT ![c] = Tail(@)]
      /\ \E m : up' = [up EXCEPT ![c] = Append(@, m)]
  BY DEF Send, CloseSend, handler
<1>2. Alone(c)
  <2>1. DOMAIN cli = Clients
    BY DEF TypeOK
  <2> QED
    BY <1>1, <2>1 DEF Alone, Shape, Same, PanelFree, PanelKept
<1>3. HandlerOf(c)'
  BY <1>1 DEF HandlerOf
<1>4. PushOf(c)'
  <2>1. ASSUME Pushed(c), rpc[c] = "LoadImage", down[c] = "none"
        PROVE  Streaming(c, cmd[c].png)'
    <3>1. cmd[c].png \in Pngs /\ Streaming(c, cmd[c].png)
      BY <2>1 DEF PushOf
    <3>2. PICK png \in Pngs : png = cmd[c].png
      BY <3>1
    <3>3. Streaming(c, png)
      BY <3>1, <3>2
    <3>4. Streaming(c, png)'
      BY <1>1, <3>3, StreamSend
    <3>5. cmd'[c].png = png
      BY <1>1, <3>2
    <3> QED
      BY <3>4, <3>5 DEF Streaming, Sends, Collects
  <2> QED
    BY <1>1, <2>1 DEF PushOf, Pushed, Good
<1> QED
  BY <1>2, <1>3, <1>4

LEMMA NamesGiven == \A name : Command(name).name = name
BY DEF Command, Given

(* The end of a command, of a push with its picture on the glass.           *)
LEMMA EndPush ==
  ASSUME TypeOK, Shape, NEW c \in Clients, HandlerOf(c), PushOf(c),
         NEW how \in Answers \cup {"timeout"}, End(c, how),
         how = "ok" => /\ h[c] = "none"
                       /\ Pushed(c) => rpc[c] = "Refresh" /\ down[c] = "ok",
         UNCHANGED <<handler, main, mem, glass, drive, alone>>
  PROVE  Alone(c) /\ HandlerOf(c)' /\ PushOf(c)'
<1>1. /\ UNCHANGED <<h, hdr, buf>>
      /\ out'[c] = how /\ rpc'[c] = "none" /\ down'[c] = "none"
      /\ cmd'[c] = cmd[c] \/ (cmd'[c] = Command("none") /\ how \notin {"cut", "timeout"})
  BY DEF End, handler, TypeOK
<1>2. Alone(c)
  <2>1. /\ DOMAIN cli = Clients /\ DOMAIN cmd = Clients /\ DOMAIN out = Clients
        /\ DOMAIN rpc = Clients /\ DOMAIN down = Clients
    BY DEF TypeOK
  <2>2. Shape'
    BY <1>1 DEF Shape, End
  <2>3. \A d \in Clients \ {c} : Same(d)
    BY <1>1, <2>1 DEF Shape, End, Same
  <2> QED
    BY <2>2, <2>3 DEF Alone, PanelFree, PanelKept
<1>3. HandlerOf(c)'
  BY <1>1 DEF HandlerOf, Answers
<1>4. PushOf(c)'
  <2>1. CASE cmd'[c] = Command("none")
    <3>1. cmd'[c].name = "none"
      BY <2>1, NamesGiven
    <3> QED
      BY <3>1 DEF PushOf, Pushed
  <2>2. CASE cmd'[c] = cmd[c]
    BY <1>1, <2>2 DEF PushOf, Pushed, Good
  <2> QED
    BY <1>1, <2>1, <2>2
<1> QED
  BY <1>2, <1>3, <1>4

LEMMA ClientPush ==
  ASSUME TypeOK, Shape, NEW c \in Clients, HandlerOf(c), PushOf(c), Client(c)
  PROVE  Alone(c) /\ HandlerOf(c)' /\ PushOf(c)'
<1>1. ClientStep(c) /\ UNCHANGED <<handler, main, mem, glass, drive, alone>>
  BY DEF Client, serviceVars, panel
<1>2. CASE Send(c) \/ CloseSend(c)
  BY <1>1, <1>2, SendPush
<1>3. CASE SendFails(c)
  <2>1. End(c, "error") /\ "error" \in Answers
    BY <1>3, NameFacts DEF SendFails
  <2> QED
    BY <1>1, <2>1, EndPush
<1>4. CASE GiveUp(c)
  <2>1. End(c, "timeout")
    BY <1>4 DEF GiveUp
  <2> QED
    BY <1>1, <2>1, EndPush
<1>5. CASE Receive(c)
  <2>1. down[c] # "none" /\ down[c] \in Answers /\ rpc[c] # "none"
    BY <1>5 DEF Receive, TypeOK, HandlerOf
  <2>2. CASE cmd[c].name = "load-image" /\ rpc[c] = "LoadImage" /\ down[c] = "ok"
    <3>1. /\ rpc' = [rpc EXCEPT ![c] = "Refresh"]
          /\ down' = [down EXCEPT ![c] = "none"]
          /\ UNCHANGED <<cli, cmd, todo, up, out, h, hdr, buf>>
      BY <1>1, <1>5, <2>2 DEF Receive, handler
    <3>2. rpc'[c] = "Refresh" /\ down'[c] = "none" /\ h'[c] = "none" /\ out'[c] = "none"
      BY <2>2, <3>1 DEF TypeOK, HandlerOf
    <3>3. Alone(c)
      <4>1. DOMAIN rpc = Clients /\ DOMAIN down = Clients
        BY DEF TypeOK
      <4> QED
        BY <1>1, <3>1, <4>1 DEF Alone, Shape, Same, PanelFree, PanelKept
    <3>4. HandlerOf(c)'
      BY <1>1, <3>1, <3>2 DEF HandlerOf
    <3>5. PushOf(c)'
      <4>1. alone[c] => mem = Image(cmd[c].png)
        BY <2>2 DEF PushOf, Pushed
      <4>2. Pushed(c) /\ cmd'[c] = cmd[c]
        BY <2>2, <3>1 DEF Pushed
      <4>3. /\ cmd[c].png \in Pngs /\ Packs4(cmd[c].png) /\ Known(cmd[c].mode)
        BY <4>2 DEF PushOf
      <4> QED
        BY <1>1, <3>2, <4>1, <4>2, <4>3 DEF PushOf
    <3> QED
      BY <3>3, <3>4, <3>5
  <2>3. CASE ~(cmd[c].name = "load-image" /\ rpc[c] = "LoadImage" /\ down[c] = "ok")
    <3>1. End(c, down[c])
      BY <1>5, <2>3 DEF Receive
    <3>2. PICK how \in Answers : how = down[c]
      BY <2>1
    <3>3. how = "ok" => /\ h[c] = "none"
                        /\ Pushed(c) => rpc[c] = "Refresh" /\ down[c] = "ok"
      BY <2>1, <2>3, <3>2 DEF HandlerOf, PushOf, Pushed
    <3>4. End(c, how)
      BY <3>1, <3>2 DEF End
    <3> QED
      BY <1>1, <3>3, <3>4, EndPush
  <2> QED
    BY <2>2, <2>3
<1> QED
  BY <1>1, <1>2, <1>3, <1>4, <1>5 DEF ClientStep

(* A command is a push only if its stream is that of its picture.           *)
PushBegins(command, method, messages) ==
  command.name = "load-image" =>
    \E png \in Pngs, size \in ChunkBytes :
      /\ command.png = png /\ Packs4(png) /\ Known(command.mode)
      /\ method = "LoadImage"
      /\ messages = <<Header(Len(PackPNGGrayscale4(png)), 4, Whole(png))>>
                      \o Chunks(PackPNGGrayscale4(png), size)

LEMMA OtherBegins ==
  ASSUME NEW c, NEW t, NEW command, NEW method, NEW messages,
         Begin(c, t, command, method, messages), command.name # "load-image"
  PROVE  \E cmd1, method1, messages1 :
           /\ Begin(c, t, cmd1, method1, messages1)
           /\ PushBegins(cmd1, method1, messages1)
BY DEF PushBegins

LEMMA CommandBegins ==
  ASSUME NEW c, NEW t, NewCommand(c, t)
  PROVE  \E command, method, messages :
           /\ Begin(c, t, command, method, messages)
           /\ PushBegins(command, method, messages)
<1>1. CASE cmdInfo(c, t)
  BY <1>1, OtherBegins, NamesGiven DEF cmdInfo
<1>2. CASE cmdHealth(c, t)
  BY <1>2, OtherBegins, NamesGiven DEF cmdHealth
<1>3. CASE cmdMetrics(c, t)
  BY <1>3, OtherBegins, NamesGiven DEF cmdMetrics
<1>4. CASE cmdGetPullMode(c, t)
  BY <1>4, OtherBegins, NamesGiven DEF cmdGetPullMode
<1>5. CASE cmdReissue(c, t)
  BY <1>5, OtherBegins, NamesGiven DEF cmdReissue
<1>6. CASE simpleEmpty(c, t)
  <2>1. PICK name \in {"sleep", "standby", "rotate"} :
          Begin(c, t, Command(name), EmptyMethod[name], <<>>)
    BY <1>6 DEF simpleEmpty, EmptyMethod
  <2>2. Command(name).name # "load-image"
    BY NamesGiven
  <2> QED
    BY <2>1, <2>2, OtherBegins
<1>7. CASE cmdSetPullMode(c, t)
  <2>1. PICK p : Begin(c, t, Given("set-pull-mode", NoPng, "", p), "SetPullMode", <<>>)
    BY <1>7 DEF cmdSetPullMode
  <2>2. Given("set-pull-mode", NoPng, "", p).name # "load-image"
    BY DEF Given
  <2> QED
    BY <2>1, <2>2, OtherBegins
<1>8. CASE cmdRefresh(c, t)
  <2>1. PICK mode : Begin(c, t, Given("refresh", NoPng, mode, ""), "Refresh", <<>>)
    BY <1>8 DEF cmdRefresh
  <2>2. Given("refresh", NoPng, mode, "").name # "load-image"
    BY DEF Given
  <2> QED
    BY <2>1, <2>2, OtherBegins
<1>9. CASE cmdLoadImage(c, t)
  <2>1. PICK png \in Pngs, mode \in ModeNames, size \in ChunkBytes :
          /\ Known(mode) /\ Packs4(png)
          /\ Begin(c, t, Given("load-image", png, mode, ""), "LoadImage",
                   <<Header(Len(PackPNGGrayscale4(png)), 4, Whole(png))>>
                     \o Chunks(PackPNGGrayscale4(png), size))
    BY <1>9 DEF cmdLoadImage
  <2>2. /\ Given("load-image", png, mode, "").png = png
        /\ Given("load-image", png, mode, "").mode = mode
    BY DEF Given
  <2>3. PushBegins(Given("load-image", png, mode, ""), "LoadImage",
                   <<Header(Len(PackPNGGrayscale4(png)), 4, Whole(png))>>
                     \o Chunks(PackPNGGrayscale4(png), size))
    BY <2>1, <2>2 DEF PushBegins
  <2> QED
    BY <2>1, <2>3
<1>10. CASE OtherStream(c, t)
  BY <1>10, OtherBegins, NamesGiven DEF OtherStream
<1> QED
  BY <1>1, <1>2, <1>3, <1>4, <1>5, <1>6, <1>7, <1>8, <1>9, <1>10 DEF NewCommand

LEMMA ConnectPush ==
  ASSUME TypeOK, Shape, NEW c \in Clients, HandlerOf(c), PushOf(c), Connect(c)
  PROVE  Alone(c) /\ HandlerOf(c)' /\ PushOf(c)'
<1>1. PICK t \in 1..gen : NewCommand(c, t)
  BY DEF Connect
<1>2. PICK command, method, messages :
        /\ Begin(c, t, command, method, messages)
        /\ PushBegins(command, method, messages)
  BY <1>1, CommandBegins
<1>3. h[c] = "none" /\ main # "exit" /\ UNCHANGED <<h, hdr, buf, main, mem, glass, drive, alone>>
  BY DEF Connect, serviceVars, handler, panel
<1>4. /\ rpc' = [rpc EXCEPT ![c] = method]
      /\ todo' = [todo EXCEPT ![c] = messages]
      /\ up' = [up EXCEPT ![c] = <<>>]
      /\ down' = [down EXCEPT ![c] = "none"]
      /\ cli' = [cli EXCEPT ![c] = IF method = "LoadImage" THEN "send" ELSE "wait"]
      /\ cmd' = [cmd EXCEPT ![c] = command]
      /\ out' = [out EXCEPT ![c] = "none"]
  BY <1>2 DEF Begin, Invoke
<1>5. /\ DOMAIN cli = Clients /\ DOMAIN cmd = Clients /\ DOMAIN out = Clients
      /\ DOMAIN rpc = Clients /\ DOMAIN down = Clients
  BY DEF TypeOK
<1>6. Alone(c)
  BY <1>3, <1>4, <1>5 DEF Alone, Shape, Same, PanelFree, PanelKept
<1>7. /\ rpc'[c] = method /\ todo'[c] = messages /\ up'[c] = <<>>
      /\ down'[c] = "none" /\ cmd'[c] = command /\ out'[c] = "none"
      /\ method = "LoadImage" => cli'[c] = "send"
  BY <1>4, <1>5 DEF Shape
<1>8. HandlerOf(c)'
  BY <1>3, <1>7 DEF HandlerOf
<1>9. PushOf(c)'
  <2> SUFFICES ASSUME Pushed(c)'
               PROVE  PushOf(c)'
    BY DEF PushOf
  <2>1. PICK png \in Pngs, size \in ChunkBytes :
          /\ command.png = png /\ Packs4(png) /\ Known(command.mode)
          /\ method = "LoadImage"
          /\ messages = <<Header(Len(PackPNGGrayscale4(png)), 4, Whole(png))>>
                          \o Chunks(PackPNGGrayscale4(png), size)
    BY <1>2, <1>7 DEF Pushed, PushBegins
  <2> DEFINE s == Script(png, size)
  <2>2. messages = SubSeq(s, 1, Len(s) - 1) /\ Len(s) \in Nat /\ Len(s) >= 2
    BY <2>1, ScriptFacts
  <2> HIDE DEF s
  <2>3. Sends(c, s, 0, 0)'
    <3>1. SubSeq(s, 0 + 1, 0) = <<>>
      BY SubSeqEmpty
    <3>2. 0 + 1 = 1 /\ 0 <= 0 /\ 0 <= Len(s) /\ 0 < Len(s)
      BY <2>2
    <3> QED
      BY <1>7, <2>1, <2>2, <3>1, <3>2 DEF Sends
  <2>4. Collects(c, png, size, 0)'
    BY <1>3 DEF Collects
  <2>5. Streaming(c, png)'
    BY <2>3, <2>4 DEF Streaming, s
  <2>6. Streaming(c, cmd[c].png)'
    BY <1>7, <2>1, <2>5 DEF Streaming, Sends, Collects
  <2> QED
    BY <1>7, <2>1, <2>6 DEF PushOf
<1> QED
  BY <1>6, <1>8, <1>9

-----------------------------------------------------------------------------
(* Every step.                                                              *)

LEMMA DispatchPush ==
  ASSUME TypeOK, Shape, NEW c \in Clients, HandlerOf(c), PushOf(c),
         Dispatch(c), main # "exit", UNCHANGED main
  PROVE  Alone(c) /\ HandlerOf(c)' /\ PushOf(c)'
<1>1. /\ rpc[c] # "none" /\ down[c] = "none" /\ h[c] = "none"
      /\ Intercept(c) /\ UNCHANGED <<mem, glass, drive, alone>>
  BY DEF Dispatch, panel
<1>2. PanelFree(c) /\ PanelKept(c)
  BY <1>1 DEF PanelFree, PanelKept
<1>3. CASE Accepted(tok[c])
  <2>1. h' = [h EXCEPT ![c] = rpc[c]] /\ UNCHANGED <<cliVars, hdr, buf>>
    BY <1>1, <1>3 DEF Intercept
  <2>2. /\ UNCHANGED <<cli, cmd, rpc, out, todo, up, down, hdr, buf>>
        /\ h'[c] = rpc[c]
    BY <2>1 DEF cliVars, TypeOK
  <2>3. Alone(c)
    <3>1. DOMAIN h = Clients
      BY DEF TypeOK
    <3> QED
      BY <1>2, <2>1, <2>2, <3>1 DEF Alone, Shape, Same
  <2>4. HandlerOf(c)'
    <3>1. out[c] = "none"
      BY <1>1 DEF HandlerOf
    <3> QED
      BY <1>1, <2>2, <3>1 DEF HandlerOf
  <2>5. PushOf(c)'
    <3>1. ASSUME Pushed(c), rpc[c] = "LoadImage"
          PROVE  Streaming(c, cmd[c].png)'
      BY <1>1, <2>2, <3>1 DEF PushOf, Streaming, Sends, Collects
    <3> QED
      BY <1>2, <2>2, <3>1 DEF PushOf, Pushed, Good, PanelKept
  <2> QED
    BY <2>3, <2>4, <2>5
<1>4. CASE ~Accepted(tok[c])
  <2>1. Reply(c, "error")
    BY <1>1, <1>4 DEF Intercept
  <2> QED
    BY <1>2, <2>1, PlainReply
<1> QED
  BY <1>3, <1>4

LEMMA AnswerPush ==
  ASSUME TypeOK, Shape, NEW c \in Clients, HandlerOf(c), PushOf(c), Answer(c)
  PROVE  Alone(c) /\ HandlerOf(c)' /\ PushOf(c)'
<1>1. h[c] = "answer" /\ Reply(c, "ok") /\ UNCHANGED panel
  BY DEF Answer
<1>2. PanelFree(c) /\ PanelKept(c)
  BY <1>1 DEF panel, PanelFree, PanelKept
<1> QED
  BY <1>1, <1>2, PlainReply

LEMMA UnavailablePush ==
  ASSUME TypeOK, Shape, NEW c \in Clients, HandlerOf(c), PushOf(c), Unavailable(c)
  PROVE  Alone(c) /\ HandlerOf(c)' /\ PushOf(c)'
<1>1. /\ rpc[c] # "none" /\ down[c] = "none"
      /\ down' = [down EXCEPT ![c] = "cut"]
      /\ UNCHANGED <<cli, cmd, rpc, todo, up, out, h, hdr, buf, main, mem, glass,
                     drive, alone>>
  BY DEF Unavailable, serviceVars, handler, panel
<1>2. DOMAIN down = Clients
  BY DEF TypeOK
<1>3. Alone(c)
  BY <1>1, <1>2 DEF Alone, Shape, Same, PanelFree, PanelKept
<1>4. Gets(c, "cut") /\ h'[c] = h[c] /\ buf'[c] = buf[c] /\ PanelKept(c)
  BY <1>1, <1>2 DEF Gets, PanelKept
<1>5. main' = "exit" \/ main # "exit"
  BY <1>1
<1> QED
  BY <1>3, <1>4, <1>5, NoGoodAnswer

(* The server goes away under every call, and the process perhaps with it.  *)
LEMMA CutPush ==
  ASSUME Shape, NEW d \in Clients, HandlerOf(d), PushOf(d),
         down' = [c \in Clients |-> IF rpc[c] # "none" /\ down[c] = "none"
                                      THEN "cut" ELSE down[c]],
         UNCHANGED <<cli, cmd, rpc, out, buf, mem, glass, drive, alone>>,
         main' = "exit" \/ main # "exit",
         UNCHANGED h \/ (main' = "exit" /\ h' = [c \in Clients |-> "none"])
  PROVE  HandlerOf(d)' /\ PushOf(d)'
<1>1. Gets(d, "cut") /\ PanelKept(d) /\ buf'[d] = buf[d]
  BY DEF Gets, PanelKept
<1>2. h'[d] = h[d] \/ (main' = "exit" /\ h'[d] = "none")
  OBVIOUS
<1> QED
  BY <1>1, <1>2, NoGoodAnswer

LEMMA MainPush ==
  ASSUME TypeOK, Shape, NEW d \in Clients, HandlerOf(d), PushOf(d), MainMoves
  PROVE  HandlerOf(d)' /\ PushOf(d)'
<1>1. CASE Ended
  <2>1. /\ down' = [c \in Clients |-> IF rpc[c] # "none" /\ down[c] = "none"
                                        THEN "cut" ELSE down[c]]
        /\ UNCHANGED <<cli, cmd, rpc, out, buf, mem, glass, drive, alone>>
        /\ main' = "exit" /\ h' = [c \in Clients |-> "none"]
    BY <1>1 DEF Ended, panel
  <2> QED
    BY <2>1, CutPush
<1>2. CASE ~Ended
  <2>1. UNCHANGED <<cliVars, handler, mem, glass, drive, alone>>
        /\ (main' = "exit" \/ main # "exit")
    BY <1>2 DEF MainMoves, OpenDisplay, New, Start, Register, Serve, Signal,
                Close, serviceVars, panel
  <2>2. Same(d) /\ PanelKept(d)
    BY <2>1 DEF cliVars, handler, Same, PanelKept
  <2> QED
    BY <2>1, <2>2, Elsewhere
<1> QED
  BY <1>1, <1>2

LEMMA PullerPush ==
  ASSUME TypeOK, Shape, NEW d \in Clients, HandlerOf(d), PushOf(d), PullerStep
  PROVE  HandlerOf(d)' /\ PushOf(d)'
<1>1. UNCHANGED <<cliVars, handler>> /\ main # "exit"
  BY PullerFacts
<1>2. Same(d)
  BY <1>1 DEF cliVars, handler, Same
<1>3. alone'[d] = FALSE \/ PanelKept(d)
  <2>1. CASE PollOnce \/ Take(Puller)
    BY <2>1 DEF PollOnce, Take, PanelKept
  <2>2. CASE PullLoad \/ PullRefresh
    <3>1. Leave(Puller, FALSE)
      BY <2>2 DEF PullLoad, PullRefresh
    <3>2. d # Puller
      BY ServiceAssumption
    <3> QED
      BY <3>1, <3>2 DEF Leave
  <2> QED
    BY <2>1, <2>2 DEF PullerStep
<1> QED
  BY <1>1, <1>2, <1>3, Elsewhere

LEMMA SettlePush ==
  ASSUME Shape, NEW d \in Clients, HandlerOf(d), PushOf(d), Settles
  PROVE  HandlerOf(d)' /\ PushOf(d)'
<1>1. Same(d) /\ (main' = "exit" \/ main # "exit")
  BY SettleFacts DEF cliVars, handler, Same
<1>2. PanelKept(d)
  BY DEF Settles, Settle, PanelKept
<1> QED
  BY <1>1, <1>2, Elsewhere

LEMMA StopPush ==
  ASSUME TypeOK, Shape, NEW d \in Clients, HandlerOf(d), PushOf(d),
         NEW s \in Stoppers, Stop(s)
  PROVE  HandlerOf(d)' /\ PushOf(d)'
<1>1. /\ UNCHANGED <<cli, cmd, rpc, out, todo, up, serviceVars, main>>
      /\ main # "exit"
      /\ UNCHANGED down
         \/ down' = [c \in Clients |-> IF rpc[c] # "none" /\ down[c] = "none"
                                         THEN "cut" ELSE down[c]]
  BY DEF Stop, Swap, Test, Clear, Unregister, GracefulStop, Drained, Deadline,
         Stopped, cliVars
<1>2. UNCHANGED <<h, hdr, buf, mem, glass, drive, alone>>
  BY <1>1 DEF serviceVars, handler, panel
<1>3. CASE UNCHANGED down
  <2>1. Same(d) /\ PanelKept(d)
    BY <1>1, <1>2, <1>3 DEF Same, PanelKept
  <2> QED
    BY <1>1, <2>1, Elsewhere
<1>4. CASE down' = [c \in Clients |-> IF rpc[c] # "none" /\ down[c] = "none"
                                        THEN "cut" ELSE down[c]]
  BY <1>1, <1>2, <1>4, CutPush
<1> QED
  BY <1>1, <1>3, <1>4

LEMMA ShapeKept ==
  ASSUME TypeOK, Shape,
         MainMoves \/ PullerStep \/ Settles \/ \E s \in Stoppers : Stop(s)
  PROVE  Shape'
<1>1. CASE MainMoves
  BY <1>1 DEF MainMoves, OpenDisplay, New, Start, Register, Serve, Signal,
              Close, Ended, Shape, cliVars, serviceVars, handler
<1>2. CASE PullerStep
  BY <1>2, PullerFacts DEF Shape, cliVars, handler
<1>3. CASE \E s \in Stoppers : Stop(s)
  BY <1>3 DEF Stop, Swap, Test, Clear, Unregister, GracefulStop, Drained,
              Deadline, Stopped, Shape, cliVars, serviceVars, handler
<1>4. CASE Settles
  BY <1>4, SettleFacts DEF Shape, cliVars, handler
<1> QED
  BY <1>1, <1>2, <1>3, <1>4

(* A step of client c, its handler or its call.                             *)
LEMMA StepOf ==
  ASSUME PushInv, NEW c \in Clients, Alone(c), HandlerOf(c)' /\ PushOf(c)',
         main' = "exit" \/ main # "exit"
  PROVE  PushInv'
<1>1. Shape'
  BY DEF Alone
<1>2. ASSUME NEW d \in Clients
      PROVE  HandlerOf(d)' /\ PushOf(d)'
  <2>1. CASE d = c
    BY <2>1
  <2>2. CASE d # c
    <3>1. HandlerOf(d) /\ PushOf(d)
      BY DEF PushInv
    <3>2. Same(d) /\ (alone'[d] = FALSE \/ PanelKept(d))
      BY <2>2 DEF Alone, PanelFree
    <3> QED
      BY <3>1, <3>2, Elsewhere
  <2> QED
    BY <2>1, <2>2
<1> QED
  BY <1>1, <1>2 DEF PushInv

LEMMA PushNext ==
  ASSUME TypeOK, PushInv, Next
  PROVE  PushInv'
<1>1. Shape /\ \A d \in Clients : HandlerOf(d) /\ PushOf(d)
  BY DEF PushInv
<1>2. CASE MainMoves
  <2>1. \A d \in Clients : HandlerOf(d)' /\ PushOf(d)'
    BY <1>1, <1>2, MainPush
  <2> QED
    BY <1>1, <1>2, <2>1, ShapeKept DEF PushInv
<1>3. CASE PullerStep
  <2>1. \A d \in Clients : HandlerOf(d)' /\ PushOf(d)'
    BY <1>1, <1>3, PullerPush
  <2> QED
    BY <1>1, <1>3, <2>1, ShapeKept DEF PushInv
<1>4. CASE \E s \in Stoppers : Stop(s)
  <2>1. \A d \in Clients : HandlerOf(d)' /\ PushOf(d)'
    BY <1>1, <1>4, StopPush
  <2> QED
    BY <1>1, <1>4, <2>1, ShapeKept DEF PushInv
<1>5. ASSUME NEW c \in Clients, main # "exit", Dispatch(c) \/ HandlerStep(c),
             UNCHANGED main
      PROVE  PushInv'
  <2>1. Alone(c) /\ HandlerOf(c)' /\ PushOf(c)'
    BY <1>1, <1>5, DispatchPush, HandlerPush
  <2> QED
    BY <1>5, <2>1, StepOf
<1>6. ASSUME NEW c \in Clients,
             Answer(c) \/ Connect(c) \/ Client(c) \/ Unavailable(c)
      PROVE  PushInv'
  <2>1. Alone(c) /\ HandlerOf(c)' /\ PushOf(c)'
    BY <1>1, <1>6, AnswerPush, ConnectPush, ClientPush, UnavailablePush
  <2>2. UNCHANGED main
    BY <1>6 DEF Answer, Connect, Client, Unavailable
  <2> QED
    BY <2>1, <2>2, StepOf
<1>7. CASE Settles
  <2>1. \A d \in Clients : HandlerOf(d)' /\ PushOf(d)'
    BY <1>1, <1>7, SettlePush
  <2> QED
    BY <1>1, <1>7, <2>1, ShapeKept DEF PushInv
<1> QED
  BY <1>2, <1>3, <1>4, <1>5, <1>6, <1>7, NextCases

LEMMA PushInit == Init => PushInv
<1> SUFFICES ASSUME Init
             PROVE  PushInv
  OBVIOUS
<1>1. Shape
  BY DEF Init, CliInit, ServiceInit, Shape
<1>2. ASSUME NEW c \in Clients
      PROVE  HandlerOf(c) /\ PushOf(c)
  <2>1. HandlerOf(c)
    BY DEF Init, CliInit, ServiceInit, HandlerOf
  <2>2. cmd[c] = Command("none")
    BY DEF Init, CliInit
  <2>3. ~Pushed(c)
    BY <2>2, NamesGiven DEF Pushed
  <2> QED
    BY <2>1, <2>3 DEF PushOf
<1> QED
  BY <1>1, <1>2 DEF PushInv

(* Of every push, whatever others do: its stream is on its way as packed,   *)
(* the handler has collected its beginning, its picture is in image memory, *)
(* or on the glass.                                                         *)
THEOREM PushHolds == Spec => []PushInv
<1>1. TypeOK /\ PushInv /\ [Next]_vars => PushInv'
  <2>1. CASE Next
    BY <2>1, PushNext
  <2>2. CASE UNCHANGED vars
    <3>1. UNCHANGED <<cliVars, handler, main, mem, glass, drive, alone>>
      BY <2>2 DEF vars, serviceVars, panel
    <3>2. ASSUME PushInv, NEW d \in Clients
          PROVE  HandlerOf(d)' /\ PushOf(d)'
      BY <3>1, <3>2, NothingMoves DEF PushInv
    <3>3. ASSUME PushInv
          PROVE  Shape'
      BY <3>1, <3>3 DEF PushInv, Shape, cliVars, handler
    <3> QED
      BY <3>2, <3>3 DEF PushInv
  <2> QED
    BY <2>1, <2>2
<1> QED
  BY <1>1, PushInit, TypeCorrect, PTL DEF Spec

(* A load-image that ends well has put its PNG on the glass, every pixel in *)
(* its level and with the waveform it named, unless somebody else has used  *)
(* the panel since or a drawing was under way that nobody awaited: for      *)
(* pictures of any size and content, chunks of any size, any clients and    *)
(* commands, and however the server is stopped.                             *)
THEOREM PushShown == Spec => []PushedIsShown
<1>1. PushInv => PushedIsShown
  BY DEF PushInv, PushOf, Pushed, Good, PushedIsShown
<1> QED
  BY <1>1, PushHolds, PTL
=============================================================================
