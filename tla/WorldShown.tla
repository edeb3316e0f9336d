----------------------------- MODULE WorldShown -----------------------------
(***************************************************************************)
(* World with what leaves it and what enters it: the grids a snapshot      *)
(* carries to the browser, and the traits and seasons it reads.            *)
(***************************************************************************)
EXTENDS World, SnapshotCodec, Environment

\* What the browser draws of a grid of bits.
Shown(grid) == Drawn(Width, Height, base64_encode(pack_bits(Capture(Width, Height, grid))))

\* Grids that do not fill a byte, fill one, and reach into a second; bytes
\* of zero to two groups of base64.
CodecIsFaithful ==
  /\ GridsArrive({<<4, 2>>, <<3, 3>>, <<2, 5>>})
  /\ BytesArrive({0, 1, 130, 255}, 5)

\* What the browser draws of a captured world is the world's grids, in this
\* state and, for the encoding, in larger worlds.
SnapshotsArrive ==
  /\ CodecIsFaithful
  /\ \A grid \in {food, water, mineral} : Shown(grid) = grid

\* Years of one day to five quarters and a remainder, and every byte of a gene.
DecodingIsInOrder ==
  /\ SeasonsTurn(1 .. 23)
  /\ TraitsFit
  /\ \A b \in 0 .. 255 :
       LET t == decode([g \in 1 .. 16 |-> b]) IN
       /\ t.speed > 0 /\ t.metabolism > 0 /\ t.forage_efficiency > 0
       /\ t.reproduction_threshold > 1 /\ t.swim >= 0

\* Seasons turn in order in years of every length (of four days: with every
\* tick), and the traits decode makes of a byte stay in their ranges and satisfy
\* what ConfigAssumption asks of a genome's.
EnvironmentInOrder ==
  /\ DecodingIsInOrder
  /\ current_season(tick_count, 4) = SeasonAt[tick_count % 4]
=============================================================================
