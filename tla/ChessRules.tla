----------------------------- MODULE ChessRules -----------------------------
(***************************************************************************)
(* Board Model and Move Legality Engine of src/proj/src/mvc/model/game.c,  *)
(* as pure operators over a board value.                                   *)
(*                                                                         *)
(* A board is the pair the C struct Board keeps twice over:               *)
(*   pieces  : Slots -> [type, pos, isWhite]   (struct Piece pieces[32])  *)
(*   squares : Squares -> [type, isWhite, hasMoved]  (squares[8][8])      *)
(* Fields no code path reads are left out: isAlive, canMove, id (drawing  *)
(* only) and the position copy kept in squares (for an occupied square it *)
(* always equals the square itself).  pieces[i].hasMoved is left out      *)
(* because nothing ever writes it: the mover's flag lives in the squares  *)
(* copy.  An EMPTY square and a removed slot are normalised to the single *)
(* values Empty and Removed: their other fields are never read, every     *)
(* reader first tests type # EMPTY.                                       *)
(*                                                                         *)
(* The code hard-wires an 8x8 board, 32 slots and back rank RNBQKBNR;      *)
(* here they are the constants Files, Ranks and BackRank.                  *)
(***************************************************************************)
EXTENDS Integers, Sequences, FiniteSets

CONSTANTS
  Files,     \* number of files (8 in the code)
  Ranks,     \* number of ranks (8 in the code)
  BackRank   \* piece types of the back rank, file by file

ASSUME Files \in 2..8 /\ Ranks \in 4..8
ASSUME BackRank \in Seq({"ROOK", "KNIGHT", "BISHOP", "QUEEN", "KING"})
       /\ Len(BackRank) = Files

PieceTypes == {"PAWN", "ROOK", "KNIGHT", "BISHOP", "QUEEN", "KING", "CASTLE", "EMPTY"}

Squares == [x : 0..Files - 1, y : 0..Ranks - 1]

\* pieces[] slots: white pawns, white back rank, black pawns, black back rank
Slots == 0..4 * Files - 1

\* the position a removed piece is parked at: {-1, -1}
OffBoard == [x |-> -1, y |-> -1]

Empty == [type |-> "EMPTY", isWhite |-> FALSE, hasMoved |-> FALSE]

Removed == [type |-> "EMPTY", pos |-> OffBoard, isWhite |-> FALSE]

Abs(n) == IF n < 0 THEN -n ELSE n

Sq(x, y) == [x |-> x, y |-> y]

-----------------------------------------------------------------------------
(* init_board: pawns on ranks 1 and Ranks-2, back ranks 0 and Ranks-1.    *)
PieceAt(i) ==
  LET f == i % Files
      isWhite == i < 2 * Files
      isPawn == (i \div Files) \in {0, 2}
      rank == CASE i \div Files = 0 -> 1
                [] i \div Files = 1 -> 0
                [] i \div Files = 2 -> Ranks - 2
                [] i \div Files = 3 -> Ranks - 1
  IN [type |-> IF isPawn THEN "PAWN" ELSE BackRank[f + 1],
      pos |-> Sq(f, rank), isWhite |-> isWhite]

InitPieces == [i \in Slots |-> PieceAt(i)]

InitSquares ==
  [s \in Squares |->
     IF \E i \in Slots : PieceAt(i).pos = s
     THEN LET p == PieceAt(CHOOSE i \in Slots : PieceAt(i).pos = s)
          IN [type |-> p.type, isWhite |-> p.isWhite, hasMoved |-> FALSE]
     ELSE Empty]

-----------------------------------------------------------------------------
(* Board queries                                                           *)

is_inside_board(p) == p.x >= 0 /\ p.x < Files /\ p.y >= 0 /\ p.y < Ranks

is_square_occupied(sq, p) == sq[p].type # "EMPTY"

\* the piece record `pc` may capture what stands on p: an opposite colour
can_take(sq, p, pc) == sq[p].type # "EMPTY" /\ sq[p].isWhite # pc.isWhite

\* squares strictly between f and t on a common line or diagonal
Between(f, t) ==
  LET n == IF Abs(t.x - f.x) > Abs(t.y - f.y) THEN Abs(t.x - f.x) ELSE Abs(t.y - f.y)
      sx == IF t.x > f.x THEN 1 ELSE IF t.x < f.x THEN -1 ELSE 0
      sy == IF t.y > f.y THEN 1 ELSE IF t.y < f.y THEN -1 ELSE 0
  IN {Sq(f.x + k * sx, f.y + k * sy) : k \in 1..n - 1}

\* scans the file (same x) or the rank (same y); any other pair: FALSE
is_piece_in_front(sq, f, t) ==
  /\ f.x = t.x \/ f.y = t.y
  /\ \E s \in Between(f, t) : sq[s].type # "EMPTY"

\* scans the diagonal; only ever called with |dx| = |dy|
is_piece_in_diagonal(sq, f, t) ==
  /\ f.x # t.x /\ f.y # t.y
  /\ \E s \in Between(f, t) : sq[s].type # "EMPTY"

\* index of the first pieces[] slot at p, -1 if none (the 0..31 scans)
FirstSlotAt(pcs, p) ==
  LET at == {i \in Slots : pcs[i].pos = p}
  IN IF at = {} THEN -1 ELSE CHOOSE i \in at : \A j \in at : i <= j

-----------------------------------------------------------------------------
(* is_movement_legal: its verdict and the side effects it performs on the  *)
(* way, as a record: ok (the return value), capture (it called             *)
(* remove_piece_from_board on the destination) and setMoved (it set        *)
(* piece->hasMoved).                                                       *)
Verdict(ok, capture, setMoved) == [ok |-> ok, capture |-> capture, setMoved |-> setMoved]

Illegal == Verdict(FALSE, FALSE, FALSE)

PawnVerdict(sq, pc, f, t) ==
  LET dy == f.y - t.y
      forward == ~is_square_occupied(sq, t) /\ ~is_piece_in_front(sq, f, t) /\ f.x = t.x
      takeW == can_take(sq, t, pc) /\ Abs(f.x - t.x) = 1 /\ dy = -1 /\ pc.isWhite
      takeB == can_take(sq, t, pc) /\ Abs(f.x - t.x) = 1 /\ dy = 1 /\ ~pc.isWhite
  IN IF ~pc.hasMoved
     THEN IF (dy \in 1..2 /\ ~pc.isWhite) \/ (dy \in -2..-1 /\ pc.isWhite)
          THEN CASE forward -> Verdict(TRUE, FALSE, TRUE)
                 [] takeW   -> Verdict(TRUE, FALSE, TRUE)
                 [] takeB   -> Verdict(TRUE, FALSE, FALSE)
                 [] OTHER   -> Illegal
          ELSE Illegal
     ELSE IF (dy = 1 /\ ~pc.isWhite) \/ (dy = -1 /\ pc.isWhite)
          THEN CASE forward -> Verdict(TRUE, FALSE, FALSE)
                 [] takeW   -> Verdict(TRUE, TRUE, TRUE)
                 [] takeB   -> Verdict(TRUE, TRUE, FALSE)
                 [] OTHER   -> Illegal
          ELSE Illegal

RookVerdict(sq, pc, f, t) ==
  IF f.x = t.x \/ f.y = t.y
  THEN CASE ~is_square_occupied(sq, t) /\ ~is_piece_in_front(sq, f, t) -> Verdict(TRUE, FALSE, TRUE)
         [] can_take(sq, t, pc) /\ ~is_piece_in_front(sq, f, t) -> Verdict(TRUE, TRUE, TRUE)
         [] OTHER -> Illegal
  ELSE Illegal

KnightVerdict(sq, pc, f, t) ==
  IF /\ is_inside_board(t)
     /\ {Abs(f.x - t.x), Abs(f.y - t.y)} = {1, 2}
  THEN CASE ~is_square_occupied(sq, t) -> Verdict(TRUE, FALSE, FALSE)
         [] can_take(sq, t, pc) -> Verdict(TRUE, TRUE, FALSE)
         [] OTHER -> Illegal
  ELSE Illegal

BishopVerdict(sq, pc, f, t) ==
  IF is_inside_board(t) /\ Abs(f.x - t.x) = Abs(f.y - t.y)
  THEN CASE is_square_occupied(sq, t) /\ ~is_piece_in_diagonal(sq, f, t)
              /\ can_take(sq, t, pc) -> Verdict(TRUE, TRUE, FALSE)
         [] ~is_square_occupied(sq, t) /\ ~is_piece_in_diagonal(sq, f, t) -> Verdict(TRUE, FALSE, FALSE)
         [] OTHER -> Illegal
  ELSE Illegal

\* a queen moves as the rook along lines and as the bishop on diagonals
QueenVerdict(sq, pc, f, t) ==
  CASE ~is_inside_board(t) -> Illegal
    [] f.x = t.x \/ f.y = t.y -> RookVerdict(sq, pc, f, t)
    [] OTHER -> BishopVerdict(sq, pc, f, t)

KingVerdict(sq, pc, f, t) ==
  IF is_inside_board(t) /\ Abs(f.x - t.x) <= 1 /\ Abs(f.y - t.y) <= 1
  THEN CASE ~is_square_occupied(sq, t) -> Verdict(TRUE, FALSE, FALSE)
         [] can_take(sq, t, pc) /\ sq[t].type # "KING" -> Verdict(TRUE, TRUE, FALSE)
         [] OTHER -> Illegal
  ELSE Illegal

is_movement_legal(sq, type, pc, f, t) ==
  CASE type = "PAWN"   -> PawnVerdict(sq, pc, f, t)
    [] type = "ROOK"   -> RookVerdict(sq, pc, f, t)
    [] type = "KNIGHT" -> KnightVerdict(sq, pc, f, t)
    [] type = "BISHOP" -> BishopVerdict(sq, pc, f, t)
    [] type = "QUEEN"  -> QueenVerdict(sq, pc, f, t)
    [] type = "KING"   -> KingVerdict(sq, pc, f, t)
    [] OTHER           -> Illegal          \* CASTLE and EMPTY

-----------------------------------------------------------------------------
(* Board mutations.  A board is [pieces |-> .., squares |-> ..].          *)

\* clears the first slot at p and the square p; nothing if no slot is at p
remove_piece_from_board(b, p) ==
  LET i == FirstSlotAt(b.pieces, p)
  IN IF i = -1 THEN b
     ELSE [pieces |-> [b.pieces EXCEPT ![i] = Removed],
           squares |-> [b.squares EXCEPT ![p] = Empty]]

\* variant: the square record is moved but pieces[i].position is not
change_piece_position_slot_kept(b, ip, fp) ==
  LET pc == b.squares[ip]
      v == is_movement_legal(b.squares, pc.type, pc, ip, fp)
      mover == IF v.setMoved THEN [pc EXCEPT !.hasMoved = TRUE] ELSE pc
      b1 == [b EXCEPT !.squares[ip] = mover]
      b2 == IF v.capture THEN remove_piece_from_board(b1, fp) ELSE b1
      i == FirstSlotAt(b2.pieces, ip)
  IN CASE ~v.ok -> [moved |-> FALSE, board |-> b]
       [] ~is_inside_board(fp) \/ i = -1 -> [moved |-> FALSE, board |-> b2]
       [] OTHER -> [moved |-> TRUE,
                    board |-> [b2 EXCEPT !.squares = [@ EXCEPT ![fp] = mover, ![ip] = Empty]]]

(* change_piece_position(piece = &squares[ip], ip, fp): the legality check *)
(* with its side effects, then the first slot standing on ip is moved to   *)
(* fp and the square record is copied from ip to fp.  Result: the board    *)
(* and the return value.                                                   *)
change_piece_position(b, ip, fp) ==
  LET pc == b.squares[ip]
      v == is_movement_legal(b.squares, pc.type, pc, ip, fp)
      mover == IF v.setMoved THEN [pc EXCEPT !.hasMoved = TRUE] ELSE pc
      b1 == [b EXCEPT !.squares[ip] = mover]
      b2 == IF v.capture THEN remove_piece_from_board(b1, fp) ELSE b1
      i == FirstSlotAt(b2.pieces, ip)
  IN CASE ~v.ok -> [moved |-> FALSE, board |-> b]
       [] ~is_inside_board(fp) \/ i = -1 -> [moved |-> FALSE, board |-> b2]
       [] OTHER -> [moved |-> TRUE,
                    board |-> [pieces |-> [b2.pieces EXCEPT ![i].pos = fp],
                               squares |-> [b2.squares EXCEPT ![fp] = mover, ![ip] = Empty]]]

\* promote_pawn_to_queen: first slot at the pawn's square and the square
promote_pawn_to_queen(b, p) ==
  LET i == FirstSlotAt(b.pieces, p)
  IN IF i = -1 THEN b
     ELSE [pieces |-> [b.pieces EXCEPT ![i].type = "QUEEN"],
           squares |-> [b.squares EXCEPT ![p].type = "QUEEN"]]

\* the promotion test run after every completed drag, moved or not
Promotion(b, fp) ==
  LET s == b.squares[fp]
  IN IF s.type = "PAWN" /\ ((s.isWhite /\ fp.y = Ranks - 1) \/ (~s.isWhite /\ fp.y = 0))
     THEN promote_pawn_to_queen(b, fp)
     ELSE b

-----------------------------------------------------------------------------
(* is_check and its probe.  is_movement_legal_without_removing is the      *)
(* verdict alone, with no side effect; it differs from is_movement_legal:  *)
(* its rook and queen take along a line without the in-front test, its     *)
(* queen takes on a diagonal without the diagonal test, its bishop never   *)
(* takes, and its king may take a king.  Its pawn case is the same test.   *)
is_movement_legal_without_removing(sq, type, pc, f, t) ==
  LET line == f.x = t.x \/ f.y = t.y
      diagonal == Abs(f.x - t.x) = Abs(f.y - t.y)
      free == ~is_square_occupied(sq, t)
  IN CASE type = "PAWN"   -> PawnVerdict(sq, pc, f, t).ok
       [] type = "ROOK"   -> line /\ ((free /\ ~is_piece_in_front(sq, f, t)) \/ can_take(sq, t, pc))
       [] type = "KNIGHT" -> /\ is_inside_board(t) /\ {Abs(f.x - t.x), Abs(f.y - t.y)} = {1, 2}
                             /\ (free \/ can_take(sq, t, pc))
       [] type = "BISHOP" -> is_inside_board(t) /\ diagonal /\ free /\ ~is_piece_in_diagonal(sq, f, t)
       [] type = "QUEEN"  -> /\ is_inside_board(t)
                             /\ IF line THEN (free /\ ~is_piece_in_front(sq, f, t)) \/ can_take(sq, t, pc)
                                ELSE diagonal /\ ((~free /\ can_take(sq, t, pc))
                                                  \/ (free /\ ~is_piece_in_diagonal(sq, f, t)))
       [] type = "KING"   -> /\ is_inside_board(t) /\ Abs(f.x - t.x) <= 1 /\ Abs(f.y - t.y) <= 1
                             /\ (free \/ can_take(sq, t, pc))
       [] OTHER           -> FALSE

\* get_possible_moves(game, &pieces[i]): the squares the probe accepts from
\* the slot's position; pieces[] entries keep hasMoved = false
get_possible_moves(b, i) ==
  LET pc == [type |-> b.pieces[i].type, isWhite |-> b.pieces[i].isWhite, hasMoved |-> FALSE]
  IN {t \in Squares : is_movement_legal_without_removing(b.squares, pc.type, pc, b.pieces[i].pos, t)}

\* the lowest slot of a set of slots
FirstSlot(S) == CHOOSE i \in S : \A j \in S : i <= j

(* is_check: the position of the first king of the side not to move (left  *)
(* uninitialised when there is none), then the first pieces[] entry of the *)
(* side to move that is neither EMPTY nor KING: if one of its possible      *)
(* moves lands on the king the call returns true, else it frees the        *)
(* array inside its local Movelist.  The set of outcomes: "false" (no such *)
(* entry), "check", or "invalid_free"; or "uninit_read" when there is no  *)
(* such king and a move passes the verdict, so that the test reads the     *)
(* uninitialised king_pos, after which its result is undefined.           *)
is_check(g) ==
  LET b == g.board
      kings == {i \in Slots : b.pieces[i].type = "KING" /\ b.pieces[i].isWhite # g.isWhiteTurn}
      attackers == {i \in Slots : b.pieces[i].isWhite = g.isWhiteTurn
                                  /\ b.pieces[i].type \notin {"EMPTY", "KING"}}
      moves == get_possible_moves(b, FirstSlot(attackers))
  IN CASE attackers = {} -> {"false"}
       [] kings = {} -> IF moves = {} THEN {"invalid_free"} ELSE {"uninit_read"}
       [] OTHER -> IF b.pieces[FirstSlot(kings)].pos \in moves THEN {"check"} ELSE {"invalid_free"}

=============================================================================
