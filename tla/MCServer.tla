------------------------------ MODULE MCServer ------------------------------
(* Instances of Server for TLC: values for its constants.                   *)
EXTENDS Server, SequencesExt

White == <<65535, 65535, 65535>>
Black == <<0, 0, 0>>
Red   == <<65535, 0, 0>>

Picture(width, height, colour(_, _)) ==
  [w |-> width, h |-> height,
   at |-> [p \in Points(width, height) |-> colour(p[1], p[2])]]

(* Four pixels of three colours in two rows, one row that makes an odd      *)
(* number of bytes, and one of an odd width.                                *)
Square(x, y) == IF x = y THEN White ELSE IF x = 0 THEN Black ELSE Red
MCPngs == {Picture(2, 2, Square), Picture(2, 1, Square), Picture(1, 2, Square)}

MCModes == {"A2", "none such"}

CONSTANTS c1, c2
MCUses == c1 :> {"load-image"} @@
          c2 :> {"info", "health", "metrics", "get-pull-mode", "set-pull-mode",
                 "reissue", "rotate", "refresh", "sleep", "standby", "other"}
MCRotates == [c \in Clients |-> {"rotate"}]

One   == <<1>>
Two   == <<1, 2>>
Three == <<1, 2, 3>>

(* Streams without a header, with headers that are refused, too long, too   *)
(* short, with a second header, whole, whole with a size whose square       *)
(* overflows, or is never found, and one that asks for too much memory.     *)
MCStreams ==
  {<<Data(One)>>,
   <<Header(0, 4, NoRegion)>>,
   <<Header(2, 1, NoRegion)>>,
   <<Header(1, 4, NoRegion), Data(Two)>>,
   <<Header(4, 4, NoRegion), Data(Two)>>,
   <<Header(2, 4, NoRegion), Header(2, 4, NoRegion)>>,
   <<Header(2, 4, NoRegion), Data(Two)>>,
   <<Header(4, 4, NoRegion), Data(Two), Data(Two)>>,
   <<Header(3, 4, NoRegion), Data(Three)>>,
   <<Header(9, 4, NoRegion)>>}

(* What a client may have meant image memory to hold: a stream of its own,  *)
(* if its header and its data agree, or what signage-cli sends of a PNG.    *)
Pixels(stream) ==
  FlattenSeq([i \in 1..(Len(stream) - 1) |-> stream[i + 1].data])

WellFormed(stream) ==
  /\ HeaderValid(Head(stream))
  /\ \A i \in 2..Len(stream) : stream[i].kind = "data"
  /\ Len(Pixels(stream)) = Head(stream).total
  /\ HasSide(Head(stream).region, Head(stream).total, Head(stream).bpp)

Meant(stream) ==
  LET m    == Head(stream)
      dims == dimsFromHeader(m.region, m.total, m.bpp)
  IN  [pixels |-> Pixels(stream),
       words  |-> AreaWords(m.bpp, dims[1], dims[2], m.region)]

(* Streams are cut off, abandoned, and overtaken by other users of the      *)
(* panel: image memory that holds one picture and not parts of several has  *)
(* one that was sent from its first byte to its last, with its own words.   *)
MemoryIsWhole ==
  mem = Torn \/ mem \in {Image(png) : png \in {p \in Pngs : Packs4(p)}}
             \/ \E s \in Streams : WellFormed(s) /\ mem = Meant(s)

=============================================================================
