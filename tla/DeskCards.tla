------------------------------ MODULE DeskCards ------------------------------
(* The owner's desk as a value: cards, newest first, and what a write makes of *)
(* it.  A write names a card: an upsert gives its title and may leave out its  *)
(* status, a removal gives nothing more.                                       *)
EXTENDS Naturals, Sequences, Selection

CONSTANTS
  Card,     \* ids of cards
  Title,
  None,
  MaxCards  \* DESK_MAX_CARDS

ASSUME DeskAssumption == MaxCards \in Nat \ {0} /\ None \notin Title

Status == {"pending", "approved", "rejected"}
Cards == [id : Card, title : Title, status : Status]
Write == [kind : {"upsert"}, id : Card, title : Title, status : Status \union {None}]
         \union [kind : {"remove"}, id : Card]

\* The version of a board is its text, which holds the time it was written.
Board == [cards : Seq(Cards), at : Nat]
Empty(t) == [cards |-> <<>>, at |-> t]

\* A preference that is not stored reads as an empty board.
BoardOf(row, t) == IF row = None THEN Empty(t) ELSE row

Others(board, id) == Kept(board.cards, {card \in Cards : card.id # id})

\* The status of the card there is, which an upsert that gives none keeps.
StatusOf(board, id) ==
  IF \E i \in DOMAIN board.cards : board.cards[i].id = id
  THEN board.cards[CHOOSE i \in DOMAIN board.cards : board.cards[i].id = id].status
  ELSE "pending"

Upserted(board, w) ==
  LET card == [id |-> w.id, title |-> w.title,
               status |-> IF w.status = None THEN StatusOf(board, w.id) ELSE w.status]
      all == <<card>> \o Others(board, w.id)
  IN  IF Len(all) > MaxCards THEN SubSeq(all, 1, MaxCards) ELSE all

Applied(board, w, t) ==
  [cards |-> IF w.kind = "upsert" THEN Upserted(board, w) ELSE Others(board, w.id), at |-> t]
=============================================================================
