------------------------------- MODULE Ledger -------------------------------
(***************************************************************************)
(* What the general ledger promises its readers, independently of how a    *)
(* journal gets there: it is a book of posted entries that only ever       *)
(* grows.  An entry, once in the book, is never changed and never removed, *)
(* and a correction is a new entry that points at one already in the book. *)
(*                                                                         *)
(* Journals.tla is shown to implement this specification.                  *)
(***************************************************************************)
EXTENDS Naturals

VARIABLE book   \* [id of a posted journal -> its entry]

(***************************************************************************)
(* The new entries of a step: those whose id was not in the book.          *)
(***************************************************************************)
NewIds == DOMAIN book' \ DOMAIN book

LedgerInit == DOMAIN book = {}

(***************************************************************************)
(* One transaction posts one or more entries.  Every reversal among them   *)
(* corrects an entry that was in the book before the transaction.          *)
(***************************************************************************)
Post ==
    /\ DOMAIN book \subseteq DOMAIN book'
    /\ NewIds # {}
    /\ \A i \in DOMAIN book : book'[i] = book[i]
    /\ \A i \in NewIds : book'[i].reversalOf # 0 => book'[i].reversalOf \in DOMAIN book

LedgerSpec == LedgerInit /\ [][Post]_book
=============================================================================
