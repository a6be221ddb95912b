------------------------- MODULE MoneyMovementsProofs -------------------------
(***************************************************************************)
(* What holds of deposits and withdrawals for any number of movements,     *)
(* handlers, reconciliations and faults: types, the restriction of open    *)
(* deficits, and the reservations of withdrawals.  The inductive invariant *)
(* adds what each process knows of the movement it works on (Working).  A  *)
(* second one, over the first, says what the cash and the reserved cash    *)
(* add up to (LedgerInv); a third, over both, that the ledger implements   *)
(* the customer's statement (StatementInv).                                *)
(***************************************************************************)
EXTENDS MoneyMovements, SumLemmas, SequenceTheorems

----------------------------------------------------------------------------
(* The ledger: what its operators keep of a book, for any movements: its    *)
(* type, and that the deficit restriction stands exactly as long as some    *)
(* deficit is open (Sound); and which journals and reservations they change. *)

USE CustomerCashAssumption

\* The restriction of a book and its deficits agree.
DebtShown(b) == "RETURNED_FUNDS_DEFICIT" \in b.restrictions <=> OpenDeficits(b) # {}

Sound(b) == b \in Book /\ DebtShown(b)

\* A change of the book that leaves deficits and restrictions alone.
SameDebt(a, b) == a.deficits = b.deficits /\ a.restrictions = b.restrictions

\* A change of the book that leaves journals and reservations alone.
SameMovements(a, b) == a.journal = b.journal /\ a.reservation = b.reservation

\* A movement is a deposit or a withdrawal and moves an amount of cash.
LEMMA AmountsMove ==
    ASSUME NEW m \in Movements
    PROVE  Amount[m] \in Nat \ {0} /\ Effect(m) \in Int
  BY DEF Effect

\* What shows the debt depends on deficits and restrictions only.
LEMMA SameDebtShown ==
    ASSUME NEW a, NEW b, SameDebt(a, b), DebtShown(b)
    PROVE  DebtShown(a)
  BY DEF SameDebt, DebtShown, OpenDeficits

\* Posting keeps a book sound; it posts the journal unless there is one.
LEMMA PostedSound ==
    ASSUME NEW b, Sound(b), NEW m \in Movements
    PROVE  /\ Sound(Posted(b, m))
           /\ Posted(b, m).reservation = b.reservation
           /\ Posted(b, m).journal =
                 IF b.journal[m] # "NONE" THEN b.journal
                 ELSE [b.journal EXCEPT ![m] = "POSTED"]
  <1>1. CASE b.journal[m] # "NONE"
    BY <1>1 DEF Posted
  <1>2. CASE b.journal[m] = "NONE"
    <2> DEFINE cash == b.cash + Effect(m)
               journal == [b.journal EXCEPT ![m] = "POSTED"]
    <2>1. cash \in Int /\ journal \in [Movements -> {"NONE", "POSTED", "REVERSED"}]
      BY AmountsMove DEF Sound, Book
    <2>2. Posted(b, m) = [b EXCEPT !.cash = cash, !.journal = journal]
      BY <1>2 DEF Posted, Sound, Book
    <2> HIDE DEF cash, journal
    <2>3. /\ Posted(b, m) \in Book /\ SameDebt(Posted(b, m), b)
          /\ Posted(b, m).reservation = b.reservation
          /\ Posted(b, m).journal = journal
      BY <2>1, <2>2 DEF Sound, Book, SameDebt
    <2>4. QED BY <1>2, <2>3, SameDebtShown DEF Sound, journal
  <1>3. QED BY <1>1, <1>2

\* Reversing keeps a book sound, and reservations alone.
LEMMA ReversedSound ==
    ASSUME NEW b, Sound(b), NEW m \in Movements
    PROVE  /\ Sound(Reversed(b, m))
           /\ Reversed(b, m).reservation = b.reservation
           /\ Reversed(b, m).journal = [b.journal EXCEPT ![m] = "REVERSED"]
  <1> DEFINE journal == [b.journal EXCEPT ![m] = "REVERSED"]
             cash == b.cash - Effect(m)
  <1>1. /\ cash \in Int /\ journal \in [Movements -> {"NONE", "POSTED", "REVERSED"}]
        /\ b.journal \in [Movements -> {"NONE", "POSTED", "REVERSED"}]
    BY AmountsMove DEF Sound, Book
  <1>2. CASE b.journal[m] = "REVERSED"
    <2>1. journal = b.journal
      BY <1>1, <1>2
    <2>2. QED BY <1>2, <2>1 DEF Reversed
  <1>3. CASE b.journal[m] # "REVERSED"
    <2>1. Reversed(b, m) = [b EXCEPT !.cash = cash, !.journal = journal]
      BY <1>3 DEF Reversed, Sound, Book
    <2> HIDE DEF cash, journal
    <2>2. /\ Reversed(b, m) \in Book /\ SameDebt(Reversed(b, m), b)
          /\ Reversed(b, m).reservation = b.reservation
          /\ Reversed(b, m).journal = journal
      BY <1>1, <2>1 DEF Sound, Book, SameDebt
    <2>3. QED BY <2>2, SameDebtShown DEF Sound, journal
  <1>4. QED BY <1>2, <1>3

\* Reserving keeps a book sound.
LEMMA ReservedSound ==
    ASSUME NEW b, Sound(b), NEW w \in Withdrawals
    PROVE  /\ Sound(Reserved(b, w))
           /\ Reserved(b, w).journal = b.journal
           /\ Reserved(b, w).reservation = [b.reservation EXCEPT ![w] = "ACTIVE"]
  <1> DEFINE reserved == b.reserved + Amount[w]
             reservation == [b.reservation EXCEPT ![w] = "ACTIVE"]
  <1>1. /\ reserved \in Int
        /\ reservation \in [Withdrawals -> {"NONE", "ACTIVE", "RELEASED", "CONSUMED"}]
    BY AmountsMove DEF Movements, Sound, Book
  <1>2. Reserved(b, w) = [b EXCEPT !.reserved = reserved, !.reservation = reservation]
    BY DEF Reserved, Sound, Book
  <1> HIDE DEF reserved, reservation
  <1>3. /\ Reserved(b, w) \in Book /\ SameDebt(Reserved(b, w), b)
        /\ Reserved(b, w).journal = b.journal
        /\ Reserved(b, w).reservation = reservation
    BY <1>1, <1>2 DEF Sound, Book, SameDebt
  <1>4. QED BY <1>3, SameDebtShown DEF Sound, reservation

\* Ending a reservation keeps a book sound, and ends just that reservation.
LEMMA EndedSound ==
    ASSUME NEW b, Sound(b), NEW w \in Withdrawals, NEW as \in {"RELEASED", "CONSUMED"}
    PROVE  /\ Sound(Ended(b, w, as))
           /\ Ended(b, w, as).journal = b.journal
           /\ Ended(b, w, as).reservation = [b.reservation EXCEPT ![w] = as]
  <1> DEFINE reserved == b.reserved - Amount[w]
             reservation == [b.reservation EXCEPT ![w] = as]
  <1>1. /\ reserved \in Int
        /\ reservation \in [Withdrawals -> {"NONE", "ACTIVE", "RELEASED", "CONSUMED"}]
        /\ b.reservation \in [Withdrawals -> {"NONE", "ACTIVE", "RELEASED", "CONSUMED"}]
    <2>1. Amount[w] \in Nat
      BY AmountsMove DEF Movements
    <2>2. /\ b.reserved \in Int
          /\ b.reservation \in [Withdrawals -> {"NONE", "ACTIVE", "RELEASED", "CONSUMED"}]
      BY DEF Sound, Book
    <2>3. reserved \in Int
      BY <2>1, <2>2
    <2>4. reservation \in [Withdrawals -> {"NONE", "ACTIVE", "RELEASED", "CONSUMED"}]
      BY <2>2
    <2>5. QED BY <2>2, <2>3, <2>4
  <1>2. CASE b.reservation[w] = as
    <2>1. reservation = b.reservation
      BY <1>1, <1>2
    <2>2. QED BY <1>2, <2>1 DEF Ended
  <1>3. CASE b.reservation[w] # as
    <2>1. Ended(b, w, as) = [b EXCEPT !.reserved = reserved, !.reservation = reservation]
      BY <1>3 DEF Ended, Sound, Book
    <2> HIDE DEF reserved, reservation
    <2>2. /\ Ended(b, w, as) \in Book /\ SameDebt(Ended(b, w, as), b)
          /\ Ended(b, w, as).journal = b.journal
          /\ Ended(b, w, as).reservation = reservation
      BY <1>1, <2>1 DEF Sound, Book, SameDebt
    <2>3. QED BY <2>2, SameDebtShown DEF Sound, reservation
  <1>4. QED BY <1>2, <1>3

\* Protecting reservations adds a restriction that is not the deficit's.
LEMMA ProtectedSound ==
    ASSUME NEW b, Sound(b)
    PROVE  Sound(Protected(b)) /\ SameMovements(Protected(b), b)
  <1>1. /\ Protected(b) \in Book
        /\ SameMovements(Protected(b), b)
        /\ Protected(b).deficits = b.deficits
        /\ "RETURNED_FUNDS_DEFICIT" \in Protected(b).restrictions <=>
              "RETURNED_FUNDS_DEFICIT" \in b.restrictions
    BY DEF Sound, Book, Restrictions, Protected, SameMovements
  <1>2. QED BY <1>1 DEF Sound, DebtShown, OpenDeficits

\* A recorded deficit is open, and restricts.
LEMMA DeficitRecordedSound ==
    ASSUME NEW b, Sound(b), NEW d \in Deposits
    PROVE  Sound(DeficitRecorded(b, d)) /\ SameMovements(DeficitRecorded(b, d), b)
  <1>1. CASE b.cash >= 0 \/ \E i \in DOMAIN b.deficits : b.deficits[i].of = d
    BY <1>1 DEF DeficitRecorded, SameMovements
  <1>2. CASE ~(b.cash >= 0 \/ \E i \in DOMAIN b.deficits : b.deficits[i].of = d)
    <2> DEFINE new == [of |-> d, amount |-> -b.cash, recovered |-> 0]
               after == DeficitRecorded(b, d)
    <2>1. b.cash \in Int /\ b.deficits \in Seq(Deficit) /\ b.restrictions \subseteq Restrictions
      BY DEF Sound, Book
    <2>2. new \in Deficit /\ Outstanding(new) > 0
      BY <1>2, <2>1 DEF Deficit, Outstanding
    <2> HIDE DEF new
    <2>3. after = [b EXCEPT !.cash = 0, !.deficits = Append(@, new),
                            !.restrictions = @ \cup {"RETURNED_FUNDS_DEFICIT"}]
      BY <1>2 DEF DeficitRecorded, new
    <2>4. /\ Append(b.deficits, new) \in Seq(Deficit)
          /\ Len(b.deficits) + 1 \in DOMAIN Append(b.deficits, new)
          /\ Append(b.deficits, new)[Len(b.deficits) + 1] = new
      BY <2>1, <2>2
    <2> DEFINE deficits == Append(b.deficits, new)
               restrictions == b.restrictions \cup {"RETURNED_FUNDS_DEFICIT"}
    <2>8. restrictions \subseteq Restrictions /\ deficits \in Seq(Deficit)
      BY <2>1, <2>4 DEF Restrictions
    <2>9. after = [b EXCEPT !.cash = 0, !.deficits = deficits, !.restrictions = restrictions]
      BY <2>3
    <2> HIDE DEF after, deficits, restrictions
    <2>10. /\ after \in Book /\ SameMovements(after, b)
           /\ after.deficits = deficits /\ after.restrictions = restrictions
      <3>1. b \in Book /\ 0 \in Int
        BY DEF Sound
      <3>2. after \in Book
        BY <2>8, <2>9, <3>1 DEF Book
      <3>3. QED BY <2>9, <3>1, <3>2 DEF Book, SameMovements
    <2>5. /\ after \in Book /\ SameMovements(after, b)
          /\ after.deficits = Append(b.deficits, new)
          /\ "RETURNED_FUNDS_DEFICIT" \in after.restrictions
      BY <2>10 DEF deficits, restrictions
    <2>6. OpenDeficits(after) # {}
      BY <2>2, <2>4, <2>5 DEF OpenDeficits
    <2>7. QED BY <2>5, <2>6 DEF Sound, DebtShown, after
  <1>3. QED BY <1>1, <1>2

\* Some open deficit is the oldest.
LEMMA OldestDeficit ==
    ASSUME NEW b \in Book, OpenDeficits(b) # {}
    PROVE  \E i \in OpenDeficits(b) : \A j \in OpenDeficits(b) : i <= j
  <1>1. OpenDeficits(b) \subseteq Nat
    BY DEF OpenDeficits, Book
  <1>2. PICK i \in OpenDeficits(b) :
            \A j \in OpenDeficits(b) : ~(<<j, i>> \in OpToRel(<, Nat))
    BY <1>1, WFMin, NatLessThanWellFounded
  <1>3. ASSUME NEW j \in OpenDeficits(b) PROVE i <= j
    <2>1. ~(<<j, i>> \in {ss \in Nat \X Nat : ss[1] < ss[2]})
      BY <1>2 DEF OpToRel
    <2>2. i \in Nat /\ j \in Nat
      BY <1>1
    <2>3. ~(j < i)
      BY <2>1, <2>2
    <2>4. QED BY <2>2, <2>3
  <1>4. QED BY <1>3

\* Recovering a part of an open deficit, and lifting the restrictions with the last,
\* keeps a book sound.
LEMMA RecoveredSound ==
    ASSUME NEW b, Sound(b)
    PROVE  Sound(Recovered(b)) /\ SameMovements(Recovered(b), b)
  <1>1. CASE OpenDeficits(b) = {} \/ Available(b) <= 0
    BY <1>1 DEF Recovered, SameMovements
  <1>2. CASE ~(OpenDeficits(b) = {} \/ Available(b) <= 0)
    <2> DEFINE i == CHOOSE i \in OpenDeficits(b) : \A j \in OpenDeficits(b) : i <= j
               deficit == b.deficits[i]
               amount == Lesser(Available(b), Outstanding(deficit))
               less == [deficit EXCEPT !.recovered = @ + amount]
               cash == b.cash - amount
               deficits == [b.deficits EXCEPT ![i] = less]
               repaid == [b EXCEPT !.cash = cash, !.deficits = deficits]
    <2>1. b \in Book /\ b.deficits \in Seq(Deficit) /\ b.cash \in Int /\ b.reserved \in Int
      BY DEF Sound, Book
    <2>2. i \in OpenDeficits(b)
      BY <1>2, <2>1, OldestDeficit
    <2>3. Recovered(b) = Lifted(repaid)
      BY <1>2 DEF Recovered
    <2> HIDE DEF i
    <2>4. i \in DOMAIN b.deficits /\ deficit \in Deficit /\ Outstanding(deficit) > 0
      BY <2>1, <2>2 DEF OpenDeficits
    <2> HIDE DEF deficit
    <2>5. amount \in Nat
      BY <1>2, <2>1, <2>4 DEF Lesser, Available, Outstanding, Deficit
    <2> HIDE DEF amount
    <2>6. less \in Deficit
      BY <2>4, <2>5 DEF Deficit
    <2> HIDE DEF less
    <2>7. deficits \in Seq(Deficit)
      BY <2>1, <2>4, <2>6
    <2>8. cash \in Int
      BY <2>1, <2>5
    <2> HIDE DEF deficits, cash
    <2>9. /\ repaid \in Book /\ SameMovements(repaid, b)
          /\ repaid.restrictions = b.restrictions
      BY <2>1, <2>7, <2>8 DEF Book, SameMovements
    <2>10. "RETURNED_FUNDS_DEFICIT" \in repaid.restrictions
      BY <1>2, <2>9 DEF Sound, DebtShown
    <2> HIDE DEF repaid
    <2>11. /\ Lifted(repaid) \in Book /\ SameMovements(Lifted(repaid), repaid)
           /\ Lifted(repaid).deficits = repaid.deficits
           /\ Lifted(repaid).restrictions =
                 IF OpenDeficits(repaid) = {} THEN {} ELSE repaid.restrictions
      BY <2>9 DEF Lifted, Book, SameMovements
    <2>12. OpenDeficits(Lifted(repaid)) = OpenDeficits(repaid)
      BY <2>11 DEF OpenDeficits
    <2>13. Sound(Lifted(repaid))
      BY <2>10, <2>11, <2>12 DEF Sound, DebtShown
    <2>14. QED BY <2>3, <2>9, <2>11, <2>13 DEF SameMovements, repaid
  <1>3. QED BY <1>1, <1>2

\* The opening book is sound.
LEMMA OpeningSound == Sound(OpeningBook)
  BY DEF Sound, DebtShown, OpenDeficits, OpeningBook, Book

----------------------------------------------------------------------------
(* The movements *)

USE MoneyMovementsAssumption

TransactionSteps ==
    {"processing", "complete", "fail", "cancel", "hold", "holding", "return", "returning"}

\* Transactions run on deposits and linked withdrawals, returns on deposits; until its
\* reservation is linked, only its own request works on a withdrawal.
Working(c) ==
    /\ task[c].step \in TransactionSteps => task[c].of \in Deposits \cup linked
    /\ task[c].step \in {"return", "returning"} => task[c].of \in Deposits
    /\ task[c].step \in {"pay", "record"} => c \in Deposits /\ task[c].of = c
    /\ task[c].step \in {"reserve", "link", "undo"} =>
          c \in Withdrawals \ linked /\ task[c].of = c /\ movement[c] = "PENDING_PROVIDER"
    /\ task[c].step \in {"transfer", "payout", "keep"} => c \in linked /\ task[c].of = c

\* The property, of one withdrawal, with what it rests on.
Reserving(w) ==
    /\ movement[w] = "SETTLED" => book.reservation[w] = "CONSUMED" /\ book.journal[w] = "POSTED"
    /\ movement[w] \in {"FAILED", "CANCELLED"} => book.reservation[w] # "ACTIVE"
    /\ book.reservation[w] = "CONSUMED" => book.journal[w] = "POSTED"
    /\ book.journal[w] # "REVERSED"
    /\ w \in linked => movement[w] # "NONE"
    /\ w \in known => w \in linked

MoneyInv ==
    /\ TypeOK
    /\ Sound(book)
    /\ \A w \in Withdrawals : Reserving(w)
    /\ \A c \in Callers : Working(c)

\* Everything but the book has its type.
RowTypes ==
    /\ movement \in [Movements -> Statuses]
    /\ linked \subseteq Withdrawals /\ known \subseteq Withdrawals
    /\ referred \subseteq Deposits /\ disputed \subseteq Deposits
    /\ payout \in [Withdrawals -> PayoutStatuses]
    /\ provider \in [Movements -> ProviderStates]
    /\ inbox \subseteq Events
    /\ task \in [Callers -> Task]
    /\ faults \in 0 .. MaxFaults /\ spent \in 0 .. MaxSpent

\* Types are the types of the rows and of the book.
LEMMA TypesSplit == TypeOK <=> RowTypes /\ book \in Book
  BY DEF TypeOK, RowTypes

\* A withdrawal's journal and reservation are as they were.
Untouched(w) ==
    book'.journal[w] = book.journal[w] /\ book'.reservation[w] = book.reservation[w]

\* Movements are callers, deposits or withdrawals and not both.
LEMMA Kinds ==
    /\ Movements \subseteq Callers /\ Handlers \subseteq Callers /\ Readers \subseteq Callers
    /\ Movements = Deposits \cup Withdrawals /\ Deposits \cap Withdrawals = {}
  BY CustomerCashAssumption DEF Callers, Movements

\* A step of caller c on movement m leaves the others' knowledge true.
LEMMA MovementStep ==
    ASSUME MoneyInv, RowTypes', Sound(book)', NEW c \in Callers, NEW m \in Movements,
           \A q \in Callers : q # c => task'[q] = task[q],
           Working(c)',
           \A n \in Movements : n # m => movement'[n] = movement[n],
           linked \subseteq linked' /\ linked' \subseteq linked \cup {m},
           known' \subseteq known \cup {m},
           \A w \in Withdrawals : w # m => Untouched(w),
           m \in Withdrawals => Reserving(m)',
           m \in Withdrawals => c = m \/ m \in linked
    PROVE  MoneyInv'
  <1>1. TypeOK'
    BY TypesSplit DEF Sound, TypeOK, RowTypes
  <1>2. ASSUME NEW w \in Withdrawals PROVE Reserving(w)'
    <2>1. CASE w = m
      BY <2>1
    <2>2. CASE w # m
      <3>1. Reserving(w) /\ w \in Movements
        BY Kinds DEF MoneyInv
      <3>2. /\ movement'[w] = movement[w] /\ Untouched(w)
            /\ w \in linked' <=> w \in linked
            /\ w \in known' => w \in known
        BY <2>2, <3>1
      <3>3. QED BY <3>1, <3>2 DEF Reserving, Untouched
    <2>3. QED BY <2>1, <2>2
  <1>3. ASSUME NEW q \in Callers PROVE Working(q)'
    <2>1. CASE q = c
      BY <2>1
    <2>2. CASE q # c
      <3>1. Working(q) /\ task'[q] = task[q]
        BY <2>2 DEF MoneyInv
      <3>2. task[q].step \in {"reserve", "link", "undo"} =>
               /\ q \in Withdrawals \ linked' /\ movement'[q] = "PENDING_PROVIDER"
        <4>1. SUFFICES ASSUME task[q].step \in {"reserve", "link", "undo"}
                       PROVE  q \in Withdrawals \ linked' /\ movement'[q] = "PENDING_PROVIDER"
          OBVIOUS
        <4>2. q \in Withdrawals \ linked /\ movement[q] = "PENDING_PROVIDER"
          BY <3>1, <4>1 DEF Working
        <4>3. q # m /\ q \in Movements
          BY <2>2, <4>2, Kinds
        <4>4. QED BY <4>2, <4>3
      <3>3. QED BY <3>1, <3>2 DEF Working
    <2>3. QED BY <2>1, <2>2
  <1>4. QED BY <1>1, <1>2, <1>3 DEF MoneyInv

\* A step that only changes what caller c is about to do.
LEMMA TaskStep ==
    ASSUME MoneyInv, RowTypes', UNCHANGED <<movement, linked, known, book>>,
           NEW c \in Callers, \A q \in Callers : q # c => task'[q] = task[q], Working(c)'
    PROVE  MoneyInv'
  <1>1. TypeOK' /\ Sound(book)'
    BY TypesSplit DEF Sound, TypeOK, RowTypes, MoneyInv, Book, DebtShown, OpenDeficits
  <1>2. \A w \in Withdrawals : Reserving(w)'
    BY DEF MoneyInv, Reserving
  <1>3. \A q \in Callers : Working(q)'
    BY DEF MoneyInv, Working
  <1>4. QED BY <1>1, <1>2, <1>3 DEF MoneyInv

\* A step of the world outside, and of the cash.
LEMMA WorldStep ==
    ASSUME MoneyInv, RowTypes', Sound(book)', UNCHANGED <<movement, linked, known, task>>,
           \A w \in Withdrawals : Untouched(w)
    PROVE  MoneyInv'
  <1>1. TypeOK'
    BY TypesSplit DEF Sound, TypeOK, RowTypes
  <1>2. \A w \in Withdrawals : Reserving(w)'
    BY DEF MoneyInv, Reserving, Untouched
  <1>3. \A q \in Callers : Working(q)'
    BY DEF MoneyInv, Working
  <1>4. QED BY <1>1, <1>2, <1>3 DEF MoneyInv

\* What the four ways to write a task make of it.
LEMMA TaskWritten ==
    ASSUME TypeOK, NEW c \in Callers, NEW m \in Movements \cup {NoMovement}, NEW s \in Steps,
           task' = [task EXCEPT ![c] = [of |-> m, step |-> s]]
    PROVE  /\ task' \in [Callers -> Task]
           /\ task'[c].of = m /\ task'[c].step = s
           /\ \A q \in Callers : q # c => task'[q] = task[q]
  BY DEF TypeOK, Task

\* A process that starts works on the movement it was given.
LEMMA TaskStarted ==
    ASSUME TypeOK, NEW c \in Callers, NEW m \in Movements, NEW s \in Steps, Starts(c, m, s)
    PROVE  /\ task' \in [Callers -> Task]
           /\ task'[c].of = m /\ task'[c].step = s
           /\ \A q \in Callers : q # c => task'[q] = task[q]
  BY TaskWritten DEF Starts

\* A process that ends works on nothing.
LEMMA TaskEnded ==
    ASSUME TypeOK, NEW c \in Callers, Ends(c)
    PROVE  /\ task' \in [Callers -> Task] /\ Working(c)'
           /\ \A q \in Callers : q # c => task'[q] = task[q]
  <1>1. /\ task' \in [Callers -> Task] /\ task'[c].step = "idle"
        /\ \A q \in Callers : q # c => task'[q] = task[q]
    BY TaskWritten DEF Ends, Idle, Steps
  <1>2. Working(c)'
    BY <1>1 DEF Working, TransactionSteps
  <1>3. QED BY <1>1, <1>2

\* A process that goes on stays with its movement.
LEMMA TaskGone ==
    ASSUME TypeOK, NEW c \in Callers, NEW s \in Steps, Go(c, s)
    PROVE  /\ task' \in [Callers -> Task]
           /\ task'[c].of = task[c].of /\ task'[c].step = s
           /\ \A q \in Callers : q # c => task'[q] = task[q]
  BY DEF TypeOK, Task, Go

\* The movement of a transaction: a deposit, or a withdrawal with a linked reservation.
LEMMA TransactionOf ==
    ASSUME MoneyInv, NEW c \in Callers, task[c].step \in TransactionSteps
    PROVE  /\ task[c].of \in Movements
           /\ task[c].of \in Withdrawals => task[c].of \in linked
           /\ task[c].step \in {"return", "returning"} => task[c].of \in Deposits
  BY Kinds DEF MoneyInv, Working, TypeOK

\* A row's status, written.
LEMMA StatusWritten ==
    ASSUME TypeOK, NEW m \in Movements, NEW s \in Statuses, Becomes(m, s)
    PROVE  /\ movement' \in [Movements -> Statuses] /\ movement'[m] = s
           /\ \A n \in Movements : n # m => movement'[n] = movement[n]
  BY DEF TypeOK, Becomes

----------------------------------------------------------------------------
(* What the transactions make of the book *)

\* Settlement posts a movement's journal and consumes a withdrawal's reservation.
LEMMA SettledSound ==
    ASSUME NEW m \in Movements, Sound(book), m \in Withdrawals => m \in linked
    PROVE  /\ Sound(Settled(m))
           /\ \A w \in Withdrawals \ {m} : /\ Settled(m).journal[w] = book.journal[w]
                                           /\ Settled(m).reservation[w] = book.reservation[w]
           /\ m \in Withdrawals => /\ Settled(m).reservation[m] = "CONSUMED"
                                   /\ book.journal[m] # "REVERSED" =>
                                         Settled(m).journal[m] = "POSTED"
  <1> DEFINE posted == Posted(book, m)
  <1>1. /\ Sound(posted)
        /\ posted.reservation = book.reservation
        /\ posted.journal = IF book.journal[m] # "NONE" THEN book.journal
                            ELSE [book.journal EXCEPT ![m] = "POSTED"]
    BY PostedSound
  <1>2. /\ book.journal \in [Movements -> {"NONE", "POSTED", "REVERSED"}]
        /\ book.reservation \in [Withdrawals -> {"NONE", "ACTIVE", "RELEASED", "CONSUMED"}]
        /\ posted \in Book
    BY <1>1 DEF Sound, Book
  <1>3. /\ \A w \in Withdrawals \ {m} : posted.journal[w] = book.journal[w]
        /\ book.journal[m] # "REVERSED" => posted.journal[m] = "POSTED"
    BY <1>1, <1>2
  <1> HIDE DEF posted
  <1>4. CASE m \in Deposits
    <2>1. Settled(m) = Recovered(posted) /\ m \notin Withdrawals
      BY <1>4, Kinds DEF Settled, posted
    <2>2. Sound(Recovered(posted)) /\ SameMovements(Recovered(posted), posted)
      BY <1>1, RecoveredSound
    <2>3. QED BY <1>1, <1>3, <2>1, <2>2 DEF SameMovements
  <1>5. CASE m \in Withdrawals
    <2>1. Settled(m) = Ended(posted, m, "CONSUMED")
      BY <1>5, Kinds DEF Settled, Consumed, posted
    <2>2. /\ Sound(Ended(posted, m, "CONSUMED"))
          /\ Ended(posted, m, "CONSUMED").journal = posted.journal
          /\ Ended(posted, m, "CONSUMED").reservation = [posted.reservation EXCEPT ![m] = "CONSUMED"]
      BY <1>1, <1>5, EndedSound
    <2>3. QED BY <1>1, <1>2, <1>3, <1>5, <2>1, <2>2
  <1>6. QED BY <1>4, <1>5, Kinds

\* A closed movement has no active reservation left; nothing else moves.
LEMMA GivenBackSound ==
    ASSUME NEW m \in Movements, Sound(book), m \in Withdrawals => m \in linked,
           linked \subseteq Withdrawals
    PROVE  /\ Sound(GivenBack(m))
           /\ GivenBack(m).journal = book.journal
           /\ \A w \in Withdrawals \ {m} : GivenBack(m).reservation[w] = book.reservation[w]
           /\ m \in Withdrawals => GivenBack(m).reservation[m] = "RELEASED"
  <1>1. CASE m \notin linked
    BY <1>1 DEF GivenBack
  <1>2. CASE m \in linked
    <2>1. GivenBack(m) = Ended(book, m, "RELEASED") /\ m \in Withdrawals
      BY <1>2 DEF GivenBack, Released
    <2>2. /\ Sound(Ended(book, m, "RELEASED"))
          /\ Ended(book, m, "RELEASED").journal = book.journal
          /\ Ended(book, m, "RELEASED").reservation = [book.reservation EXCEPT ![m] = "RELEASED"]
      BY <2>1, EndedSound
    <2>3. book.reservation \in [Withdrawals -> {"NONE", "ACTIVE", "RELEASED", "CONSUMED"}]
      BY DEF Sound, Book
    <2>4. QED BY <2>1, <2>2, <2>3
  <1>3. QED BY <1>1, <1>2

\* The return of a deposit leaves withdrawals alone.
LEMMA ReturnedSound ==
    ASSUME NEW d \in Deposits, Sound(book)
    PROVE  /\ Sound(Returned(d))
           /\ \A w \in Withdrawals : /\ Returned(d).journal[w] = book.journal[w]
                                     /\ Returned(d).reservation[w] = book.reservation[w]
  <1> DEFINE before == Protected(book)
             reversed == Reversed(before, d)
             recorded == DeficitRecorded(reversed, d)
  <1>0. d \in Movements /\ \A w \in Withdrawals : w \in Movements /\ w # d
    BY Kinds
  <1>1. Sound(before) /\ SameMovements(before, book)
    BY ProtectedSound
  <1>2. /\ Sound(reversed) /\ reversed.reservation = before.reservation
        /\ reversed.journal = [before.journal EXCEPT ![d] = "REVERSED"]
    BY <1>0, <1>1, ReversedSound
  <1>3. before.journal \in [Movements -> {"NONE", "POSTED", "REVERSED"}]
    BY <1>1 DEF Sound, Book
  <1>4. \A w \in Withdrawals : /\ reversed.journal[w] = book.journal[w]
                               /\ reversed.reservation[w] = book.reservation[w]
    BY <1>0, <1>1, <1>2, <1>3 DEF SameMovements
  <1>5. Sound(recorded) /\ SameMovements(recorded, reversed)
    BY <1>2, DeficitRecordedSound
  <1>6. Sound(Recovered(recorded)) /\ SameMovements(Recovered(recorded), recorded)
    BY <1>5, RecoveredSound
  <1>7. Returned(d) = IF reversed.cash < 0 THEN Recovered(recorded) ELSE reversed
    BY DEF Returned
  <1> HIDE DEF before, reversed, recorded
  <1>8. QED BY <1>2, <1>4, <1>5, <1>6, <1>7 DEF SameMovements

----------------------------------------------------------------------------
(* Each transaction keeps the invariant. *)

\* PROCESSING is written over PENDING_PROVIDER only, so no ended withdrawal reopens.
LEMMA ProcessingKeeps ==
    ASSUME MoneyInv, NEW c \in Callers, Processing(c)
    PROVE  MoneyInv'
  <1>0. PICK m \in Movements : m = task[c].of
    BY TransactionOf DEF Processing, At, TransactionSteps, MoneyInv
  <1>1. /\ (m \in Withdrawals => m \in linked)
        /\ task' \in [Callers -> Task] /\ Working(c)'
        /\ \A q \in Callers : q # c => task'[q] = task[q]
    BY <1>0, TransactionOf, TaskEnded DEF Processing, At, TransactionSteps, MoneyInv
  <1>2. /\ movement' \in [Movements -> Statuses]
        /\ \A n \in Movements : n # m => movement'[n] = movement[n]
        /\ movement'[m] = movement[m] \/ movement'[m] = "PROCESSING"
    BY <1>0, StatusWritten DEF Processing, MoneyInv, TypeOK, Statuses
  <1>3. UNCHANGED <<linked, referred, payout, known, book, provider, disputed, inbox, faults, spent>>
    BY DEF Processing, outside, bounds
  <1>4. RowTypes' /\ Sound(book)'
    BY <1>1, <1>2, <1>3 DEF RowTypes, MoneyInv, TypeOK, Sound, DebtShown, OpenDeficits, Book
  <1>5. m \in Withdrawals => Reserving(m)'
    BY <1>2, <1>3 DEF MoneyInv, Reserving
  <1>6. QED BY <1>1, <1>2, <1>3, <1>4, <1>5, MovementStep DEF MoneyInv, TypeOK, Untouched

\* Completing posts a withdrawal and consumes its reservation in one transaction.
LEMMA CompleteKeeps ==
    ASSUME MoneyInv, NEW c \in Callers, Complete(c)
    PROVE  MoneyInv'
  <1>0. PICK m \in Movements : m = task[c].of
    BY TransactionOf DEF Complete, At, TransactionSteps, MoneyInv
  <1>1. /\ (m \in Withdrawals => m \in linked)
        /\ task' \in [Callers -> Task] /\ Working(c)'
        /\ \A q \in Callers : q # c => task'[q] = task[q]
    BY <1>0, TransactionOf, TaskEnded DEF Complete, At, TransactionSteps, MoneyInv
  <1>2. UNCHANGED <<linked, payout, known, provider, disputed, inbox, faults, spent>>
    BY DEF Complete, outside, bounds
  <1>3. CASE UNCHANGED <<movement, referred, book>>
    <2>1. RowTypes'
      BY <1>1, <1>2, <1>3 DEF RowTypes, MoneyInv, TypeOK
    <2>2. QED BY <1>1, <1>2, <1>3, <2>1, TaskStep
  <1>4. CASE /\ Becomes(m, "SETTLED")
             /\ referred' = referred \cup ({m} \cap Deposits)
             /\ book' = Settled(m)
    <2>1. /\ movement' \in [Movements -> Statuses] /\ movement'[m] = "SETTLED"
          /\ \A n \in Movements : n # m => movement'[n] = movement[n]
      BY <1>1, <1>4, StatusWritten DEF MoneyInv, Statuses
    <2>2. /\ Sound(book)'
          /\ \A w \in Withdrawals \ {m} : Untouched(w)
          /\ m \in Withdrawals => /\ book'.reservation[m] = "CONSUMED"
                                  /\ book.journal[m] # "REVERSED" => book'.journal[m] = "POSTED"
      <3>1. Sound(book) /\ Sound(book') => Sound(book)'
        BY DEF Sound, DebtShown, OpenDeficits, Book
      <3>2. QED BY <1>1, <1>4, <3>1, SettledSound DEF MoneyInv, Untouched
    <2>3. RowTypes'
      BY <1>1, <1>2, <1>4, <2>1 DEF RowTypes, MoneyInv, TypeOK
    <2>4. m \in Withdrawals => Reserving(m)'
      BY <1>2, <2>1, <2>2 DEF MoneyInv, Reserving
    <2>5. QED BY <1>1, <1>2, <2>1, <2>2, <2>3, <2>4, MovementStep DEF MoneyInv, TypeOK
  <1>5. QED BY <1>0, <1>3, <1>4 DEF Complete

\* Closing a movement by either name.
LEMMA ClosesKeeps ==
    ASSUME MoneyInv, NEW c \in Callers, At(c, "fail") \/ At(c, "cancel"),
           NEW status \in {"FAILED", "CANCELLED"}, NEW terminal,
           Closes(task[c].of, status, terminal), Ends(c),
           UNCHANGED <<linked, referred, payout, known, outside, inbox, bounds>>
    PROVE  MoneyInv'
  <1>0. PICK m \in Movements : m = task[c].of
    BY TransactionOf DEF At, TransactionSteps, MoneyInv
  <1>1. /\ (m \in Withdrawals => m \in linked)
        /\ task' \in [Callers -> Task] /\ Working(c)'
        /\ \A q \in Callers : q # c => task'[q] = task[q]
    BY <1>0, TransactionOf, TaskEnded DEF At, TransactionSteps, MoneyInv
  <1>2. UNCHANGED <<linked, referred, payout, known, provider, disputed, inbox, faults, spent>>
    BY DEF outside, bounds
  <1>3. CASE UNCHANGED <<movement, book>>
    <2>1. RowTypes'
      BY <1>1, <1>2, <1>3 DEF RowTypes, MoneyInv, TypeOK
    <2>2. QED BY <1>1, <1>2, <1>3, <2>1, TaskStep
  <1>4. CASE /\ m \in linked => Endable(book, m, "RELEASED")
             /\ Becomes(m, status)
             /\ book' = GivenBack(m)
    <2>1. /\ movement' \in [Movements -> Statuses] /\ movement'[m] = status
          /\ \A n \in Movements : n # m => movement'[n] = movement[n]
      BY <1>1, <1>4, StatusWritten DEF MoneyInv, Statuses
    <2>2. /\ Sound(book)'
          /\ book'.journal = book.journal
          /\ \A w \in Withdrawals \ {m} : Untouched(w)
          /\ m \in Withdrawals => book'.reservation[m] = "RELEASED"
      <3>1. Sound(book) /\ Sound(book') => Sound(book)'
        BY DEF Sound, DebtShown, OpenDeficits, Book
      <3>2. QED BY <1>1, <1>4, <3>1, GivenBackSound DEF MoneyInv, TypeOK, Untouched
    <2>3. RowTypes'
      BY <1>1, <1>2, <2>1 DEF RowTypes, MoneyInv, TypeOK
    <2>4. m \in Withdrawals => Reserving(m)'
      BY <1>2, <2>1, <2>2 DEF MoneyInv, Reserving
    <2>5. QED BY <1>1, <1>2, <2>1, <2>2, <2>3, <2>4, MovementStep DEF MoneyInv, TypeOK
  <1>5. QED BY <1>0, <1>3, <1>4 DEF Closes

\* Failing gives a linked reservation back, and leaves settled withdrawals alone.
LEMMA FailKeeps ==
    ASSUME MoneyInv, NEW c \in Callers, Fail(c)
    PROVE  MoneyInv'
  BY ClosesKeeps DEF Fail

\* Cancelling gives a linked reservation back, and leaves settled withdrawals alone.
LEMMA CancelKeeps ==
    ASSUME MoneyInv, NEW c \in Callers, Cancel(c)
    PROVE  MoneyInv'
  BY ClosesKeeps DEF Cancel

\* The checks only change what the caller does next.
LEMMA CheckKeeps ==
    ASSUME MoneyInv, NEW c \in Callers, HoldCheck(c) \/ ReturnCheck(c)
    PROVE  MoneyInv'
  <1>1. /\ UNCHANGED <<movement, linked, referred, payout, known, book, provider, disputed,
                       inbox, faults, spent>>
        /\ task[c].step \in {"hold", "return"}
        /\ \/ Ends(c)
           \/ task[c].step = "hold" /\ Go(c, "holding")
           \/ task[c].step = "return" /\ Go(c, "returning")
    BY DEF HoldCheck, ReturnCheck, Check, At, rows, outside, bounds
  <1>2. task' \in [Callers -> Task] /\ \A q \in Callers : q # c => task'[q] = task[q]
    BY <1>1, TaskEnded, TaskGone DEF MoneyInv, Steps
  <1>3. Working(c)'
    <2>1. CASE Ends(c)
      BY <2>1, TaskEnded DEF MoneyInv
    <2>2. CASE task[c].step = "hold" /\ Go(c, "holding")
      <3>1. task'[c].of = task[c].of /\ task'[c].step = "holding"
        BY <2>2, TaskGone DEF MoneyInv, Steps
      <3>2. task[c].of \in Deposits \cup linked
        BY <2>2 DEF MoneyInv, Working, TransactionSteps
      <3>3. QED BY <1>1, <3>1, <3>2 DEF Working, TransactionSteps
    <2>3. CASE task[c].step = "return" /\ Go(c, "returning")
      <3>1. task'[c].of = task[c].of /\ task'[c].step = "returning"
        BY <2>3, TaskGone DEF MoneyInv, Steps
      <3>2. task[c].of \in Deposits
        BY <2>3 DEF MoneyInv, Working, TransactionSteps
      <3>3. QED BY <1>1, <3>1, <3>2 DEF Working, TransactionSteps
    <2>4. QED BY <1>1, <2>1, <2>2, <2>3
  <1>4. RowTypes'
    BY <1>1, <1>2 DEF RowTypes, MoneyInv, TypeOK
  <1>5. QED BY <1>1, <1>2, <1>3, <1>4, TaskStep

\* A hold puts a movement under review and leaves its journal and reservation as they are.
LEMMA HoldKeeps ==
    ASSUME MoneyInv, NEW c \in Callers, Hold(c)
    PROVE  MoneyInv'
  <1>0. PICK m \in Movements : m = task[c].of
    BY TransactionOf DEF Hold, At, TransactionSteps, MoneyInv
  <1> DEFINE held == book.held \cup {m}
  <1>1. /\ (m \in Withdrawals => m \in linked)
        /\ task' \in [Callers -> Task] /\ Working(c)'
        /\ \A q \in Callers : q # c => task'[q] = task[q]
    BY <1>0, TransactionOf, TaskEnded DEF Hold, At, TransactionSteps, MoneyInv
  <1>2. UNCHANGED <<linked, referred, payout, known, provider, disputed, inbox, faults, spent>>
    BY DEF Hold, outside, bounds
  <1>3. CASE UNCHANGED <<movement, book>>
    <2>1. RowTypes'
      BY <1>1, <1>2, <1>3 DEF RowTypes, MoneyInv, TypeOK
    <2>2. QED BY <1>1, <1>2, <1>3, <2>1, TaskStep
  <1>4. CASE Becomes(m, "MANUAL_REVIEW") /\ book' = [book EXCEPT !.held = held]
    <2>1. /\ movement' \in [Movements -> Statuses] /\ movement'[m] = "MANUAL_REVIEW"
          /\ \A n \in Movements : n # m => movement'[n] = movement[n]
      BY <1>1, <1>4, StatusWritten DEF MoneyInv, Statuses
    <2>2. book \in Book /\ held \subseteq Movements /\ DebtShown(book)
      BY <1>1 DEF MoneyInv, Sound, Book
    <2> HIDE DEF held
    <2>3. /\ book' \in Book /\ book'.deficits = book.deficits
          /\ book'.restrictions = book.restrictions
          /\ book'.journal = book.journal /\ book'.reservation = book.reservation
      BY <1>4, <2>2 DEF Book
    <2>4. Sound(book)' /\ \A w \in Withdrawals : Untouched(w)
      BY <2>2, <2>3 DEF Sound, DebtShown, OpenDeficits, Book, Untouched
    <2>5. RowTypes'
      BY <1>1, <1>2, <2>1 DEF RowTypes, MoneyInv, TypeOK
    <2>6. m \in Withdrawals => Reserving(m)'
      BY <1>2, <2>1, <2>3 DEF MoneyInv, Reserving
    <2>7. QED BY <1>1, <1>2, <2>1, <2>4, <2>5, <2>6, MovementStep DEF MoneyInv, TypeOK
  <1>5. QED BY <1>0, <1>3, <1>4 DEF Hold, Review

\* A return reverses a deposit and records what is missing; withdrawals are not touched.
LEMMA ReturnKeeps ==
    ASSUME MoneyInv, NEW c \in Callers, Return(c)
    PROVE  MoneyInv'
  <1>0. PICK m \in Movements : m = task[c].of
    BY TransactionOf DEF Return, At, TransactionSteps, MoneyInv
  <1>1. /\ m \in Deposits /\ m \notin Withdrawals
        /\ task' \in [Callers -> Task] /\ Working(c)'
        /\ \A q \in Callers : q # c => task'[q] = task[q]
    BY <1>0, TransactionOf, TaskEnded, Kinds DEF Return, At, TransactionSteps, MoneyInv
  <1>2. UNCHANGED <<linked, referred, payout, known, provider, disputed, inbox, faults, spent>>
    BY DEF Return, outside, bounds
  <1>3. CASE UNCHANGED <<movement, book>>
    <2>1. RowTypes'
      BY <1>1, <1>2, <1>3 DEF RowTypes, MoneyInv, TypeOK
    <2>2. QED BY <1>1, <1>2, <1>3, <2>1, TaskStep
  <1>4. CASE Becomes(m, "RETURNED") /\ book' = Returned(m)
    <2>1. /\ movement' \in [Movements -> Statuses]
          /\ \A n \in Movements : n # m => movement'[n] = movement[n]
      BY <1>1, <1>4, StatusWritten DEF MoneyInv, Statuses
    <2>2. Sound(book)' /\ \A w \in Withdrawals : Untouched(w)
      <3>1. Sound(book) /\ Sound(book') => Sound(book)'
        BY DEF Sound, DebtShown, OpenDeficits, Book
      <3>2. QED BY <1>1, <1>4, <3>1, ReturnedSound DEF MoneyInv, Untouched
    <2>3. RowTypes'
      BY <1>1, <1>2, <2>1 DEF RowTypes, MoneyInv, TypeOK
    <2>5. QED BY <1>1, <1>2, <2>1, <2>2, <2>3, MovementStep DEF MoneyInv, TypeOK
  <1>5. QED BY <1>0, <1>3, <1>4 DEF Return

\* Every transaction on a movement keeps the invariant, whoever runs it.
LEMMA TransactionKeeps ==
    ASSUME MoneyInv, NEW c \in Callers, Transaction(c)
    PROVE  MoneyInv'
  BY ProcessingKeeps, CompleteKeeps, FailKeeps, CancelKeeps, CheckKeeps, HoldKeeps, ReturnKeeps
     DEF Transaction

----------------------------------------------------------------------------
(* Each step of a request keeps the invariant. *)

\* Counted faults stay within their bound.
LEMMA Faulted ==
    ASSUME RowTypes, Faulty(1)
    PROVE  faults' \in 0 .. MaxFaults
  BY DEF RowTypes, Faulty

\* A new deposit starts at the call that pays it.
LEMMA RequestDepositKeeps ==
    ASSUME MoneyInv, NEW d \in Deposits, RequestDeposit(d)
    PROVE  MoneyInv'
  <1>1. /\ d \in Movements /\ d \in Callers /\ d \notin Withdrawals
        /\ UNCHANGED <<linked, referred, payout, known, book, provider, disputed, inbox, faults, spent>>
    BY Kinds DEF RequestDeposit, outside, bounds
  <1>2. /\ movement' \in [Movements -> Statuses]
        /\ \A n \in Movements : n # d => movement'[n] = movement[n]
    BY <1>1, StatusWritten DEF RequestDeposit, MoneyInv, Statuses
  <1>3. /\ task' \in [Callers -> Task] /\ task'[d].of = d /\ task'[d].step = "pay"
        /\ \A q \in Callers : q # d => task'[q] = task[q]
    BY <1>1, TaskStarted DEF RequestDeposit, MoneyInv, Steps
  <1>4. Working(d)'
    BY <1>3 DEF Working, TransactionSteps
  <1>5. RowTypes' /\ Sound(book)'
    BY <1>1, <1>2, <1>3 DEF RowTypes, MoneyInv, TypeOK, Sound, DebtShown, OpenDeficits, Book
  <1>6. QED BY <1>1, <1>2, <1>3, <1>4, <1>5, MovementStep DEF MoneyInv, TypeOK, Untouched

\* A new withdrawal has neither reservation nor link; only its request works on it.
LEMMA RequestWithdrawalKeeps ==
    ASSUME MoneyInv, NEW w \in Withdrawals, RequestWithdrawal(w)
    PROVE  MoneyInv'
  <1>1. /\ w \in Movements /\ w \in Callers
        /\ UNCHANGED <<linked, referred, payout, known, book, provider, disputed, inbox, faults, spent>>
    BY Kinds DEF RequestWithdrawal, outside, bounds
  <1>2. /\ movement' \in [Movements -> Statuses] /\ movement'[w] = "PENDING_PROVIDER"
        /\ \A n \in Movements : n # w => movement'[n] = movement[n]
    BY <1>1, StatusWritten DEF RequestWithdrawal, MoneyInv, Statuses
  <1>3. /\ task' \in [Callers -> Task] /\ task'[w].of = w /\ task'[w].step = "reserve"
        /\ \A q \in Callers : q # w => task'[q] = task[q]
    BY <1>1, TaskStarted DEF RequestWithdrawal, MoneyInv, Steps
  <1>4. w \notin linked /\ Reserving(w)
    BY DEF RequestWithdrawal, Planned, MoneyInv, Reserving
  <1>5. Working(w)'
    BY <1>1, <1>2, <1>3, <1>4 DEF Working, TransactionSteps
  <1>6. Reserving(w)'
    BY <1>1, <1>2, <1>4 DEF Reserving
  <1>7. RowTypes' /\ Sound(book)'
    BY <1>1, <1>2, <1>3 DEF RowTypes, MoneyInv, TypeOK, Sound, DebtShown, OpenDeficits, Book
  <1>8. QED BY <1>1, <1>2, <1>3, <1>5, <1>6, <1>7, MovementStep DEF MoneyInv, TypeOK, Untouched

\* The call that pays a deposit moves no money of the customer.
LEMMA PayKeeps ==
    ASSUME MoneyInv, NEW d \in Deposits, Pay(d)
    PROVE  MoneyInv'
  <1>1. /\ d \in Movements /\ d \in Callers /\ task[d].of = d /\ task[d].step = "pay"
        /\ UNCHANGED <<movement, linked, referred, payout, known, book, disputed, inbox, spent>>
    BY Kinds DEF Pay, At, rows, MoneyInv, Working
  <1>2. /\ provider' \in [Movements -> ProviderStates] /\ faults' \in 0 .. MaxFaults
        /\ Go(d, "record") \/ Go(d, "fail")
    BY <1>1, Faulted DEF Pay, MoneyInv, TypeOK, RowTypes, ProviderStates
  <1>3. /\ task' \in [Callers -> Task] /\ task'[d].of = d /\ task'[d].step \in {"record", "fail"}
        /\ \A q \in Callers : q # d => task'[q] = task[q]
    BY <1>1, <1>2, TaskGone DEF MoneyInv, Steps
  <1>4. Working(d)'
    BY <1>3 DEF Working, TransactionSteps
  <1>5. RowTypes'
    BY <1>1, <1>2, <1>3 DEF RowTypes, MoneyInv, TypeOK
  <1>6. QED BY <1>1, <1>3, <1>4, <1>5, TaskStep

\* The request overwrites a deposit's status, never a withdrawal's.
LEMMA RecordPaymentKeeps ==
    ASSUME MoneyInv, NEW d \in Deposits, RecordPayment(d)
    PROVE  MoneyInv'
  <1>1. /\ d \in Movements /\ d \in Callers /\ d \notin Withdrawals
        /\ task[d].of = d /\ task[d].step = "record"
        /\ UNCHANGED <<linked, payout, known, book, provider, disputed, inbox, spent>>
    BY Kinds DEF RecordPayment, At, outside, MoneyInv, Working
  <1>2. CASE /\ \E status \in {"PENDING_PROVIDER", "PROCESSING"} : Becomes(d, status)
             /\ referred' = referred \cup {d}
             /\ Ends(d) /\ UNCHANGED faults
    <2>1. /\ movement' \in [Movements -> Statuses]
          /\ \A n \in Movements : n # d => movement'[n] = movement[n]
      BY <1>1, <1>2, StatusWritten DEF MoneyInv, Statuses
    <2>2. /\ task' \in [Callers -> Task] /\ Working(d)'
          /\ \A q \in Callers : q # d => task'[q] = task[q]
      BY <1>1, <1>2, TaskEnded DEF MoneyInv
    <2>3. RowTypes' /\ Sound(book)'
      BY <1>1, <1>2, <2>1, <2>2
         DEF RowTypes, MoneyInv, TypeOK, Sound, DebtShown, OpenDeficits, Book
    <2>4. QED BY <1>1, <2>1, <2>2, <2>3, MovementStep DEF MoneyInv, TypeOK, Untouched
  <1>3. CASE Go(d, "fail") /\ Faulty(1) /\ UNCHANGED <<movement, referred>>
    <2>1. faults' \in 0 .. MaxFaults
      BY <1>3, Faulted DEF MoneyInv, TypeOK, RowTypes
    <2>2. /\ task' \in [Callers -> Task] /\ task'[d].of = d /\ task'[d].step = "fail"
          /\ \A q \in Callers : q # d => task'[q] = task[q]
      BY <1>1, <1>3, TaskGone DEF MoneyInv, Steps
    <2>3. Working(d)'
      BY <2>2 DEF Working, TransactionSteps
    <2>4. RowTypes'
      BY <1>1, <1>3, <2>1, <2>2 DEF RowTypes, MoneyInv, TypeOK
    <2>5. QED BY <1>1, <1>3, <2>2, <2>3, <2>4, TaskStep
  <1>4. QED BY <1>2, <1>3 DEF RecordPayment

\* A withdrawal's reservation is ACTIVE before it is linked.
LEMMA ReserveKeeps ==
    ASSUME MoneyInv, NEW w \in Withdrawals, Reserve(w)
    PROVE  MoneyInv'
  <1>1. /\ w \in Movements /\ w \in Callers /\ task[w].of = w
        /\ w \notin linked /\ movement[w] = "PENDING_PROVIDER" /\ Reserving(w)
        /\ UNCHANGED <<movement, linked, referred, payout, known, provider, disputed, inbox, faults, spent>>
    BY Kinds DEF Reserve, At, rows, outside, bounds, MoneyInv, Working
  <1>2. Go(w, "link") \/ Go(w, "undo")
    BY DEF Reserve
  <1>3. /\ task' \in [Callers -> Task] /\ task'[w].of = w /\ task'[w].step \in {"link", "undo"}
        /\ \A q \in Callers : q # w => task'[q] = task[q]
    BY <1>1, <1>2, TaskGone DEF MoneyInv, Steps
  <1>4. Working(w)'
    BY <1>1, <1>3 DEF Working, TransactionSteps
  <1>5. RowTypes'
    BY <1>1, <1>3 DEF RowTypes, MoneyInv, TypeOK
  <1>6. CASE UNCHANGED book
    BY <1>1, <1>3, <1>4, <1>5, <1>6, TaskStep
  <1>7. CASE book' = Reserved(book, w)
    <2>1. /\ Sound(Reserved(book, w)) /\ Reserved(book, w).journal = book.journal
          /\ Reserved(book, w).reservation = [book.reservation EXCEPT ![w] = "ACTIVE"]
      BY ReservedSound DEF MoneyInv
    <2>2. book.reservation \in [Withdrawals -> {"NONE", "ACTIVE", "RELEASED", "CONSUMED"}]
      BY DEF MoneyInv, Sound, Book
    <2>3. /\ Sound(book)' /\ book'.reservation[w] = "ACTIVE" /\ book'.journal = book.journal
          /\ \A v \in Withdrawals : v # w => Untouched(v)
      <3>1. Sound(book') => Sound(book)'
        BY DEF Sound, DebtShown, OpenDeficits, Book
      <3>2. QED BY <1>7, <2>1, <2>2, <3>1 DEF Untouched
    <2>4. Reserving(w)'
      BY <1>1, <2>3 DEF Reserving
    <2>5. QED BY <1>1, <1>3, <1>4, <1>5, <2>3, <2>4, MovementStep DEF MoneyInv, TypeOK
  <1>8. QED BY <1>6, <1>7 DEF Reserve

\* From the link on, webhooks and reconciliation may meet the withdrawal.
LEMMA LinkKeeps ==
    ASSUME MoneyInv, NEW w \in Withdrawals, Link(w)
    PROVE  MoneyInv'
  <1>1. /\ w \in Movements /\ w \in Callers /\ task[w].of = w
        /\ w \notin linked /\ movement[w] = "PENDING_PROVIDER" /\ Reserving(w)
        /\ UNCHANGED <<movement, referred, payout, known, book, provider, disputed, inbox, spent>>
    BY Kinds DEF Link, At, outside, MoneyInv, Working
  <1>2. /\ \/ linked' = linked \cup {w} /\ Go(w, "transfer")
           \/ linked' = linked /\ Go(w, "undo")
        /\ faults' \in 0 .. MaxFaults
    BY Faulted DEF Link, MoneyInv, TypeOK, RowTypes
  <1>3. /\ task' \in [Callers -> Task] /\ task'[w].of = w
        /\ \A q \in Callers : q # w => task'[q] = task[q]
        /\ \/ linked' = linked \cup {w} /\ task'[w].step = "transfer"
           \/ linked' = linked /\ task'[w].step = "undo"
    BY <1>1, <1>2, TaskGone DEF MoneyInv, Steps
  <1>4. Working(w)'
    BY <1>1, <1>3 DEF Working, TransactionSteps
  <1>5. RowTypes' /\ Sound(book)'
    BY <1>1, <1>2, <1>3 DEF RowTypes, MoneyInv, TypeOK, Sound, DebtShown, OpenDeficits, Book
  <1>6. Reserving(w)'
    BY <1>1, <1>3 DEF Reserving
  <1>7. QED BY <1>1, <1>3, <1>4, <1>5, <1>6, MovementStep DEF MoneyInv, TypeOK, Untouched

\* A request that could not link gives back what it reserved, if anything.
LEMMA UndoKeeps ==
    ASSUME MoneyInv, NEW w \in Withdrawals, Undo(w)
    PROVE  MoneyInv'
  <1>1. /\ w \in Movements /\ w \in Callers /\ w \notin linked /\ Reserving(w)
        /\ UNCHANGED <<linked, referred, payout, known, provider, disputed, inbox, faults, spent>>
    BY Kinds DEF Undo, At, outside, bounds, MoneyInv, Working
  <1>2. /\ movement' \in [Movements -> Statuses] /\ movement'[w] = "FAILED"
        /\ \A n \in Movements : n # w => movement'[n] = movement[n]
    BY <1>1, StatusWritten DEF Undo, MoneyInv, Statuses
  <1>3. /\ task' \in [Callers -> Task] /\ Working(w)'
        /\ \A q \in Callers : q # w => task'[q] = task[q]
    BY <1>1, TaskEnded DEF Undo, MoneyInv
  <1>4. /\ Sound(book)' /\ book'.journal = book.journal
        /\ \A v \in Withdrawals : v # w => Untouched(v)
        /\ book'.reservation[w] \notin {"ACTIVE", "CONSUMED"}
    <2>1. Sound(book') => Sound(book)'
      BY DEF Sound, DebtShown, OpenDeficits, Book
    <2>2. CASE book.reservation[w] = "NONE" /\ book' = book
      BY <2>1, <2>2 DEF MoneyInv, Untouched
    <2>3. CASE book' = Ended(book, w, "RELEASED")
      <3>1. /\ Sound(Ended(book, w, "RELEASED"))
            /\ Ended(book, w, "RELEASED").journal = book.journal
            /\ Ended(book, w, "RELEASED").reservation = [book.reservation EXCEPT ![w] = "RELEASED"]
        BY EndedSound DEF MoneyInv
      <3>2. book.reservation \in [Withdrawals -> {"NONE", "ACTIVE", "RELEASED", "CONSUMED"}]
        BY DEF MoneyInv, Sound, Book
      <3>3. QED BY <2>1, <2>3, <3>1, <3>2 DEF Untouched
    <2>4. QED BY <2>2, <2>3 DEF Undo, Released
  <1>5. RowTypes'
    BY <1>1, <1>2, <1>3 DEF RowTypes, MoneyInv, TypeOK
  <1>6. Reserving(w)'
    BY <1>1, <1>2, <1>4 DEF Reserving
  <1>7. QED BY <1>1, <1>2, <1>3, <1>4, <1>5, <1>6, MovementStep DEF MoneyInv, TypeOK

\* The steps of the payout, from the transfer to the row that keeps its id.
LEMMA PayoutKeeps ==
    ASSUME MoneyInv, NEW w \in Withdrawals, Transfer(w) \/ Payout(w) \/ KeepPayout(w)
    PROVE  MoneyInv'
  <1>1. /\ w \in Movements /\ w \in Callers /\ task[w].of = w /\ w \in linked /\ Reserving(w)
        /\ UNCHANGED <<movement, linked, referred, book, disputed, inbox, spent>>
    BY Kinds DEF Transfer, Payout, KeepPayout, At, outside, MoneyInv, Working
  <1>2. faults' \in 0 .. MaxFaults
    BY Faulted DEF Transfer, Payout, KeepPayout, MoneyInv, TypeOK, RowTypes
  <1>3. /\ payout' \in [Withdrawals -> PayoutStatuses]
        /\ provider' \in [Movements -> ProviderStates]
    BY <1>1 DEF Transfer, Payout, KeepPayout, ReviewPayout, outside, MoneyInv, TypeOK,
                PayoutStatuses, ProviderStates
  <1>4. known' = known \/ known' = known \cup {w}
    BY DEF Transfer, Payout, KeepPayout
  <1>5. \E s \in {"payout", "fail", "hold", "keep", "processing"} : Go(w, s)
    BY DEF Transfer, Payout, KeepPayout, ReviewPayout
  <1>6. /\ task' \in [Callers -> Task] /\ task'[w].of = w
        /\ task'[w].step \in {"payout", "fail", "hold", "keep", "processing"}
        /\ \A q \in Callers : q # w => task'[q] = task[q]
    BY <1>1, <1>5, TaskGone DEF MoneyInv, Steps
  <1>7. Working(w)'
    BY <1>1, <1>6 DEF Working, TransactionSteps
  <1>8. RowTypes' /\ Sound(book)'
    BY <1>1, <1>2, <1>3, <1>4, <1>6
       DEF RowTypes, MoneyInv, TypeOK, Sound, DebtShown, OpenDeficits, Book
  <1>9. Reserving(w)'
    BY <1>1 DEF Reserving
  <1>10. QED BY <1>1, <1>4, <1>6, <1>7, <1>8, <1>9, MovementStep DEF MoneyInv, TypeOK, Untouched

\* A request whose last write fails asks for review of a linked withdrawal.
LEMMA ProcessingFailsKeeps ==
    ASSUME MoneyInv, NEW w \in Withdrawals, ProcessingFails(w)
    PROVE  MoneyInv'
  <1>1. /\ w \in Callers /\ task[w].of \in Deposits \cup linked
        /\ UNCHANGED <<movement, linked, referred, payout, known, book, provider, disputed, inbox, spent>>
    BY Kinds DEF ProcessingFails, At, rows, outside, MoneyInv, Working, TransactionSteps
  <1>2. faults' \in 0 .. MaxFaults
    BY Faulted DEF ProcessingFails, MoneyInv, TypeOK, RowTypes
  <1>3. /\ task' \in [Callers -> Task] /\ task'[w].of = task[w].of /\ task'[w].step = "hold"
        /\ \A q \in Callers : q # w => task'[q] = task[q]
    BY <1>1, TaskGone DEF ProcessingFails, MoneyInv, Steps
  <1>4. Working(w)'
    BY <1>1, <1>3 DEF Working, TransactionSteps
  <1>5. RowTypes'
    BY <1>1, <1>2, <1>3 DEF RowTypes, MoneyInv, TypeOK
  <1>6. QED BY <1>1, <1>3, <1>4, <1>5, TaskStep

----------------------------------------------------------------------------
(* Webhooks, reconciliation and the environment keep the invariant. *)

\* A webhook or a reconciliation that starts a transaction, or nothing.
LEMMA StartStep ==
    ASSUME MoneyInv, UNCHANGED <<movement, linked, referred, known, book, provider, disputed,
                                 faults, spent>>,
           payout' \in [Withdrawals -> PayoutStatuses], inbox' \subseteq Events,
           NEW c \in Callers, NEW m \in Deposits \cup linked, NEW s \in TransactionSteps,
           s \in {"return", "returning"} => m \in Deposits,
           Starts(c, m, s) \/ UNCHANGED task
    PROVE  MoneyInv'
  <1>1. m \in Movements
    BY Kinds DEF MoneyInv, TypeOK
  <1>2. /\ task' \in [Callers -> Task]
        /\ \A q \in Callers : q # c => task'[q] = task[q]
        /\ \/ task'[c].of = m /\ task'[c].step = s
           \/ task' = task
    BY <1>1, TaskStarted DEF MoneyInv, Steps, TransactionSteps, TypeOK
  <1>3. Working(c)'
    BY <1>2 DEF Working, TransactionSteps, MoneyInv
  <1>4. RowTypes'
    BY <1>2 DEF RowTypes, MoneyInv, TypeOK
  <1>5. QED BY <1>2, <1>3, <1>4, TaskStep

PaymentKinds == {"processing", "succeeded", "failed", "canceled", "disputed", "withdrawn"}

\* A payment event leads to a transaction or to nothing.
LEMMA Responses ==
    ASSUME NEW d, NEW kind \in PaymentKinds
    PROVE  Response(d, kind) \in {"idle", "processing", "complete", "fail", "cancel", "hold", "return"}
  BY DEF Response, PaymentKinds

\* A payment event leads to a transaction on a deposit.
LEMMA PaymentEventKeeps ==
    ASSUME MoneyInv, NEW h \in Handlers, NEW e \in Events, e[1] \in Deposits,
           PaymentEvent(h, e[1], e[2])
    PROVE  MoneyInv'
  <1>1. /\ h \in Callers /\ e[2] \in PaymentKinds
        /\ e = <<e[1], e[2]>>
    BY Kinds DEF Events, PaymentKinds
  <1>2. /\ UNCHANGED <<movement, linked, referred, payout, known, book, provider, disputed, faults, spent>>
        /\ inbox' \subseteq Events
        /\ Begins(h, e[1], Response(e[1], e[2]))
    BY <1>1 DEF PaymentEvent, rows, outside, bounds, MoneyInv, TypeOK
  <1>3. PICK s \in {"idle", "processing", "complete", "fail", "cancel", "hold", "return"} :
            s = Response(e[1], e[2])
    BY <1>1, Responses
  <1>4. \E t \in TransactionSteps : Starts(h, e[1], t) \/ UNCHANGED task
    BY <1>2, <1>3 DEF Begins, TransactionSteps
  <1>5. QED BY <1>1, <1>2, <1>4, StartStep DEF MoneyInv, TypeOK

\* A payout event leads to one of three transactions on its withdrawal.
LEMMA ObservedPayout ==
    ASSUME TypeOK, NEW c, NEW w \in Withdrawals, NEW kind \in {"updated", "paid", "bounced"},
           ObservePayout(c, w, kind)
    PROVE  /\ payout' \in [Withdrawals -> PayoutStatuses]
           /\ \E s \in {"processing", "complete", "hold"} : Starts(c, w, s)
  BY DEF TypeOK, ObservePayout, PayoutStatus, PayoutCall, PayoutStatuses

\* A payout event finds its withdrawal only when it is known, hence linked.
LEMMA PayoutEventKeeps ==
    ASSUME MoneyInv, NEW h \in Handlers, NEW e \in Events, e[1] \in Withdrawals,
           PayoutEvent(h, e[1], e[2])
    PROVE  MoneyInv'
  <1>1. /\ h \in Callers /\ e[2] \in {"updated", "paid", "bounced"}
        /\ e = <<e[1], e[2]>>
    BY Kinds DEF Events
  <1>2. /\ UNCHANGED <<movement, linked, referred, known, book, provider, disputed, faults, spent>>
        /\ inbox' \subseteq Events
    BY <1>1 DEF PayoutEvent, outside, bounds, MoneyInv, TypeOK
  <1>3. CASE e[1] \in known /\ ObservePayout(h, e[1], e[2])
    <2>1. e[1] \in linked
      BY <1>3 DEF MoneyInv, Reserving
    <2>2. /\ payout' \in [Withdrawals -> PayoutStatuses]
          /\ \E s \in {"processing", "complete", "hold"} : Starts(h, e[1], s)
      BY <1>1, <1>3, ObservedPayout DEF MoneyInv
    <2>3. QED BY <1>1, <1>2, <2>1, <2>2, StartStep DEF TransactionSteps
  <1>4. CASE UNCHANGED <<payout, task>>
    <2>1. RowTypes'
      BY <1>2, <1>4 DEF RowTypes, MoneyInv, TypeOK
    <2>2. Working(h)'
      BY <1>1, <1>2, <1>4 DEF Working, MoneyInv
    <2>3. QED BY <1>1, <1>2, <1>4, <2>1, <2>2, TaskStep
  <1>5. QED BY <1>3, <1>4 DEF PayoutEvent

\* Reconciliation starts transactions on referred deposits and known withdrawals only.
LEMMA ReconcileKeeps ==
    ASSUME MoneyInv, NEW r \in Readers, Reconcile(r)
    PROVE  MoneyInv'
  <1>1. r \in Callers
    BY Kinds
  <1>2. CASE \E d \in Deposits : ReconcileDeposit(r, d)
    <2>1. PICK d \in Deposits : ReconcileDeposit(r, d)
      BY <1>2
    <2>2. /\ UNCHANGED <<movement, linked, referred, payout, known, book, provider, disputed,
                         inbox, faults, spent>>
          /\ \E s \in {"complete", "processing"} : Starts(r, d, s)
      BY <2>1 DEF ReconcileDeposit, rows, outside, bounds
    <2>3. QED BY <1>1, <2>2, StartStep DEF TransactionSteps, MoneyInv, TypeOK
  <1>3. CASE \E w \in Withdrawals : ReconcilePayout(r, w)
    <2>1. PICK w \in Withdrawals : ReconcilePayout(r, w)
      BY <1>3
    <2>2. /\ UNCHANGED <<movement, linked, referred, known, book, provider, disputed,
                         inbox, faults, spent>>
          /\ w \in known
          /\ \E kind \in {"updated", "paid", "bounced"} : ObservePayout(r, w, kind)
      BY <2>1 DEF ReconcilePayout, outside, bounds
    <2>3. /\ payout' \in [Withdrawals -> PayoutStatuses]
          /\ \E s \in {"processing", "complete", "hold"} : Starts(r, w, s)
      BY <2>2, ObservedPayout DEF MoneyInv
    <2>4. w \in linked
      BY <2>2 DEF MoneyInv, Reserving
    <2>5. QED BY <1>1, <2>2, <2>3, <2>4, StartStep DEF TransactionSteps, MoneyInv, TypeOK
  <1>4. QED BY <1>2, <1>3 DEF Reconcile

\* A process that dies leaves the rows as they are.
LEMMA DieKeeps ==
    ASSUME MoneyInv, NEW c \in Callers, Die(c)
    PROVE  MoneyInv'
  <1>1. UNCHANGED <<movement, linked, referred, payout, known, book, provider, disputed, inbox, spent>>
    BY DEF Die, rows, outside
  <1>2. /\ task' \in [Callers -> Task] /\ Working(c)'
        /\ \A q \in Callers : q # c => task'[q] = task[q]
    BY TaskEnded DEF Die, MoneyInv
  <1>3. faults' \in 0 .. MaxFaults
    BY Faulted DEF Die, MoneyInv, TypeOK, RowTypes
  <1>4. RowTypes'
    BY <1>1, <1>2, <1>3 DEF RowTypes, MoneyInv, TypeOK
  <1>5. QED BY <1>1, <1>2, <1>4, TaskStep

\* What happens at Stripe changes nothing here until it is told.
LEMMA StripeKeeps ==
    ASSUME MoneyInv, NEW m \in Movements, Stripe(m)
    PROVE  MoneyInv'
  <1>1. /\ UNCHANGED <<movement, linked, referred, payout, known, book, disputed, inbox, task,
                       faults, spent>>
        /\ \E state \in ProviderStates : provider' = [provider EXCEPT ![m] = state]
    <2>1. \A before \in DOMAIN Later : Later[before] \subseteq ProviderStates
      <3>1. /\ DOMAIN Later = {"processing", "confirmed", "available", "pending", "paid"}
            /\ Later["processing"] \subseteq ProviderStates /\ Later["confirmed"] \subseteq ProviderStates
            /\ Later["available"] \subseteq ProviderStates /\ Later["pending"] \subseteq ProviderStates
            /\ Later["paid"] \subseteq ProviderStates
        BY DEF Later, ProviderStates
      <3>2. QED BY <3>1
    <2>2. QED BY <2>1 DEF Stripe, rows, bounds
  <1>2. RowTypes' /\ Sound(book)' /\ \A w \in Withdrawals : Untouched(w)
    BY <1>1 DEF RowTypes, MoneyInv, TypeOK, Sound, DebtShown, OpenDeficits, Book, Untouched
  <1>3. QED BY <1>1, <1>2, WorldStep

\* A dispute changes nothing here until it is told.
LEMMA DisputeKeeps ==
    ASSUME MoneyInv, NEW d \in Deposits, Dispute(d)
    PROVE  MoneyInv'
  <1>1. /\ UNCHANGED <<movement, linked, referred, payout, known, book, provider, inbox, task,
                       faults, spent>>
        /\ disputed' = disputed \cup {d}
    BY DEF Dispute, rows, bounds
  <1>2. RowTypes' /\ Sound(book)' /\ \A w \in Withdrawals : Untouched(w)
    BY <1>1 DEF RowTypes, MoneyInv, TypeOK, Sound, DebtShown, OpenDeficits, Book, Untouched
  <1>3. QED BY <1>1, <1>2, WorldStep

\* A purchase changes the cash alone.
LEMMA SpendKeeps ==
    ASSUME MoneyInv, NEW amount \in 1 .. MaxSpent, Spend(amount)
    PROVE  MoneyInv'
  <1>1. /\ UNCHANGED <<movement, linked, referred, payout, known, provider, disputed, inbox, task,
                       faults>>
        /\ spent' \in 0 .. MaxSpent
    BY DEF Spend, rows, outside, MoneyInv, TypeOK
  <1>2. book \in Book /\ DebtShown(book) /\ book.cash - amount \in Int
    BY DEF MoneyInv, Sound, Book
  <1>3. book' = [book EXCEPT !.cash = book.cash - amount]
    BY <1>2 DEF Spend, Book
  <1>4. /\ book' \in Book /\ book'.deficits = book.deficits
        /\ book'.restrictions = book.restrictions
        /\ book'.journal = book.journal /\ book'.reservation = book.reservation
    BY <1>2, <1>3 DEF Book
  <1>5. RowTypes' /\ Sound(book)' /\ \A w \in Withdrawals : Untouched(w)
    BY <1>1, <1>2, <1>4
       DEF RowTypes, MoneyInv, TypeOK, Sound, DebtShown, OpenDeficits, Book, Untouched
  <1>6. QED BY <1>1, <1>5, WorldStep

----------------------------------------------------------------------------
(* The invariant *)

\* The invariant holds before the first request.
LEMMA MoneyInvInit == Init => MoneyInv
  <1> SUFFICES ASSUME Init PROVE MoneyInv
    OBVIOUS
  <1>1. Sound(book)
    BY OpeningSound DEF Init
  <1>2. TypeOK
    BY <1>1 DEF Init, TypeOK, Sound, Statuses, PayoutStatuses, ProviderStates, Task, Idle, Steps
  <1>3. \A w \in Withdrawals : Reserving(w)
    BY Kinds DEF Init, OpeningBook, Reserving
  <1>4. \A c \in Callers : Working(c)
    BY DEF Init, Idle, Working, TransactionSteps
  <1>5. QED BY <1>1, <1>2, <1>3, <1>4 DEF MoneyInv

\* Every step keeps the invariant; one case for each kind of actor.
LEMMA MoneyInvNext == MoneyInv /\ [Next]_vars => MoneyInv'
  <1> SUFFICES ASSUME MoneyInv, [Next]_vars PROVE MoneyInv'
    OBVIOUS
  <1>1. CASE \E c \in Callers : Transaction(c) \/ Die(c)
    BY <1>1, TransactionKeeps, DieKeeps
  <1>2. CASE \E d \in Deposits : RequestDeposit(d) \/ DepositRequest(d) \/ Dispute(d)
    BY <1>2, RequestDepositKeeps, PayKeeps, RecordPaymentKeeps, DisputeKeeps DEF DepositRequest
  <1>3. CASE \E w \in Withdrawals : RequestWithdrawal(w) \/ WithdrawalRequest(w) \/ ProcessingFails(w)
    BY <1>3, RequestWithdrawalKeeps, ReserveKeeps, LinkKeeps, UndoKeeps, PayoutKeeps,
       ProcessingFailsKeeps DEF WithdrawalRequest
  <1>4. CASE \E h \in Handlers, e \in Events :
                \/ e[1] \in Deposits /\ PaymentEvent(h, e[1], e[2])
                \/ e[1] \in Withdrawals /\ PayoutEvent(h, e[1], e[2])
    BY <1>4, PaymentEventKeeps, PayoutEventKeeps
  <1>5. CASE \E r \in Readers : Reconcile(r)
    BY <1>5, ReconcileKeeps
  <1>6. CASE \E m \in Movements : Stripe(m)
    BY <1>6, StripeKeeps
  <1>7. CASE \E amount \in 1 .. MaxSpent : Spend(amount)
    BY <1>7, SpendKeeps
  <1>8. CASE UNCHANGED vars
    <2>1. UNCHANGED <<movement, linked, referred, payout, known, book, provider, disputed, inbox,
                      task, faults, spent>>
      BY <1>8 DEF vars, rows, outside, bounds
    <2>2. RowTypes' /\ Sound(book)' /\ \A w \in Withdrawals : Untouched(w)
      BY <2>1 DEF RowTypes, MoneyInv, TypeOK, Sound, DebtShown, OpenDeficits, Book, Untouched
    <2>3. QED BY <2>1, <2>2, WorldStep
  <1>9. QED BY <1>1, <1>2, <1>3, <1>4, <1>5, <1>6, <1>7, <1>8 DEF Next

\* Whatever the customer, Stripe, webhooks, reconciliations and faults do, and in
\* whatever order: every transaction of provider-webhook, wallet-movement and the
\* payout service keeps the inductive invariant.
THEOREM MoneyInvariant == Spec => []MoneyInv
  BY MoneyInvInit, MoneyInvNext, PTL DEF Spec

\* The rows of deposits, withdrawals and payouts, the ledger and the processes have
\* their types; no deficit is recorded of nothing.
THEOREM MovementTypes == Spec => []TypeOK
  <1>1. MoneyInv => TypeOK
    BY DEF MoneyInv
  <1>2. QED BY <1>1, MoneyInvariant, PTL

\* After every transaction of the ledger on deposits, returns and recoveries the
\* account restriction stands exactly while a deficit is open.
THEOREM DeficitsRestrictAlways == Spec => []DeficitsRestrict
  <1>1. MoneyInv => DeficitsRestrict
    BY DEF MoneyInv, Sound, DebtShown, DeficitsRestrict
  <1>2. QED BY <1>1, MoneyInvariant, PTL

\* Settlement, failure and cancellation of a withdrawal agree with its reservation and
\* journal, whichever of request, webhook and reconciliation ran them.
THEOREM WithdrawalsReserveAlways == Spec => []WithdrawalsReserve
  <1>1. MoneyInv => WithdrawalsReserve
    BY DEF MoneyInv, Reserving, WithdrawalsReserve
  <1>2. QED BY <1>1, MoneyInvariant, PTL

----------------------------------------------------------------------------
(* What the ledger adds up to *)

\* What the posted journals moved in all, what open deficits stand for, and what
\* active reservations are for.
Counted(journal) ==
    SumFunctionOnSet([m \in Movements |-> IF journal[m] = "POSTED" THEN Effect(m) ELSE 0],
                     Movements)

Owed(deficits) ==
    SumFunctionOnSet([i \in DOMAIN deficits |-> Outstanding(deficits[i])], DOMAIN deficits)

Promised(reservation) ==
    SumFunctionOnSet([w \in Withdrawals |-> IF reservation[w] = "ACTIVE" THEN Amount[w] ELSE 0],
                     Withdrawals)

\* Cash that no journal and no deficit explains, and reserved cash that no reservation
\* explains.
Unexplained(b) == b.cash - Counted(b.journal) - Owed(b.deficits)

Loose(b) == b.reserved - Promised(b.reservation)

Kept(a, b) == Unexplained(a) = Unexplained(b) /\ Loose(a) = Loose(b)

\* There are finitely many movements.
LEMMA MovementsFinite == IsFiniteSet(Movements) /\ IsFiniteSet(Withdrawals)
  <1>1. IsFiniteSet(Movements)
    BY CustomerCashAssumption, Zenon
  <1>2. Withdrawals \in SUBSET Movements
    BY Kinds
  <1>3. QED BY <1>1, <1>2, FS_Subset

\* What a deficit still stands for is an amount, positive or not.
LEMMA OutstandingInt ==
    ASSUME NEW deficits \in Seq(Deficit), NEW i \in DOMAIN deficits
    PROVE  Outstanding(deficits[i]) \in Int
  <1>1. deficits[i] \in Deficit
    OBVIOUS
  <1>2. QED BY <1>1 DEF Outstanding, Deficit

\* The sums over a book are integers.
LEMMA SumsInt ==
    ASSUME NEW b \in Book
    PROVE  /\ Counted(b.journal) \in Int /\ Owed(b.deficits) \in Int
           /\ Promised(b.reservation) \in Int
           /\ b.cash \in Int /\ b.reserved \in Int
  <1>1. Counted(b.journal) \in Int
    <2> DEFINE f == [m \in Movements |-> IF b.journal[m] = "POSTED" THEN Effect(m) ELSE 0]
    <2>1. \A m \in Movements : f[m] \in Int
      BY AmountsMove
    <2> HIDE DEF f
    <2>2. SumFunctionOnSet(f, Movements) \in Int
      BY <2>1, MovementsFinite, SumInt
    <2>3. QED BY <2>2 DEF Counted, f
  <1>2. Owed(b.deficits) \in Int
    <2> DEFINE f == [i \in DOMAIN b.deficits |-> Outstanding(b.deficits[i])]
    <2>1. b.deficits \in Seq(Deficit)
      BY DEF Book
    <2>2. \A i \in DOMAIN b.deficits : f[i] \in Int
      BY <2>1, OutstandingInt
    <2>3. DOMAIN b.deficits = 1 .. Len(b.deficits) /\ Len(b.deficits) \in Nat
      BY <2>1
    <2> HIDE DEF f
    <2>4. SumFunctionOnSet(f, DOMAIN b.deficits) \in Int
      BY <2>2, <2>3, IntervalFinite, SumInt
    <2>5. QED BY <2>4 DEF Owed, f
  <1>3. Promised(b.reservation) \in Int
    <2> DEFINE f == [w \in Withdrawals |-> IF b.reservation[w] = "ACTIVE" THEN Amount[w] ELSE 0]
    <2>1. \A w \in Withdrawals : f[w] \in Int
      BY Kinds, AmountsMove
    <2> HIDE DEF f
    <2>2. SumFunctionOnSet(f, Withdrawals) \in Int
      BY <2>1, MovementsFinite, SumInt
    <2>3. QED BY <2>2 DEF Promised, f
  <1>4. b.cash \in Int /\ b.reserved \in Int
    BY DEF Book
  <1>5. QED BY <1>1, <1>2, <1>3, <1>4

\* Writing one journal changes what the journals moved by that journal.
LEMMA JournalWritten ==
    ASSUME NEW journal \in [Movements -> {"NONE", "POSTED", "REVERSED"}],
           NEW m \in Movements, NEW to \in {"NONE", "POSTED", "REVERSED"}
    PROVE  Counted([journal EXCEPT ![m] = to]) =
              Counted(journal) + ((IF to = "POSTED" THEN Effect(m) ELSE 0)
                                   - (IF journal[m] = "POSTED" THEN Effect(m) ELSE 0))
  <1> DEFINE new == [journal EXCEPT ![m] = to]
             f == [n \in Movements |-> IF journal[n] = "POSTED" THEN Effect(n) ELSE 0]
             g == [n \in Movements |-> IF new[n] = "POSTED" THEN Effect(n) ELSE 0]
  <1>1. new[m] = to /\ \A n \in Movements \ {m} : new[n] = journal[n]
    OBVIOUS
  <1> HIDE DEF new
  <1>2. /\ \A n \in Movements : f[n] \in Int /\ g[n] \in Int
        /\ \A n \in Movements \ {m} : g[n] = f[n]
    BY <1>1, AmountsMove
  <1>3. /\ f[m] = IF journal[m] = "POSTED" THEN Effect(m) ELSE 0
        /\ g[m] = IF to = "POSTED" THEN Effect(m) ELSE 0
    BY <1>1
  <1> HIDE DEF f, g
  <1>4. SumFunctionOnSet(g, Movements) = SumFunctionOnSet(f, Movements) + (g[m] - f[m])
    BY <1>2, MovementsFinite, SumChange
  <1>5. QED BY <1>3, <1>4 DEF Counted, f, g, new

\* Writing one reservation changes what is promised by that reservation.
LEMMA ReservationWritten ==
    ASSUME NEW reservation \in [Withdrawals -> {"NONE", "ACTIVE", "RELEASED", "CONSUMED"}],
           NEW w \in Withdrawals, NEW to \in {"NONE", "ACTIVE", "RELEASED", "CONSUMED"}
    PROVE  Promised([reservation EXCEPT ![w] = to]) =
              Promised(reservation) + ((IF to = "ACTIVE" THEN Amount[w] ELSE 0)
                                        - (IF reservation[w] = "ACTIVE" THEN Amount[w] ELSE 0))
  <1> DEFINE new == [reservation EXCEPT ![w] = to]
             f == [n \in Withdrawals |-> IF reservation[n] = "ACTIVE" THEN Amount[n] ELSE 0]
             g == [n \in Withdrawals |-> IF new[n] = "ACTIVE" THEN Amount[n] ELSE 0]
  <1>1. new[w] = to /\ \A n \in Withdrawals \ {w} : new[n] = reservation[n]
    OBVIOUS
  <1> HIDE DEF new
  <1>2. /\ \A n \in Withdrawals : f[n] \in Int /\ g[n] \in Int
        /\ \A n \in Withdrawals \ {w} : g[n] = f[n]
    BY <1>1, Kinds, AmountsMove
  <1>3. /\ f[w] = IF reservation[w] = "ACTIVE" THEN Amount[w] ELSE 0
        /\ g[w] = IF to = "ACTIVE" THEN Amount[w] ELSE 0
    BY <1>1
  <1> HIDE DEF f, g
  <1>4. SumFunctionOnSet(g, Withdrawals) = SumFunctionOnSet(f, Withdrawals) + (g[w] - f[w])
    BY <1>2, MovementsFinite, SumChange
  <1>5. QED BY <1>3, <1>4 DEF Promised, f, g, new

\* A deficit recorded is owed besides the others.
LEMMA DeficitAppended ==
    ASSUME NEW deficits \in Seq(Deficit), NEW new \in Deficit
    PROVE  Owed(Append(deficits, new)) = Owed(deficits) + Outstanding(new)
  <1> DEFINE n == Len(deficits)
             all == Append(deficits, new)
             f == [i \in DOMAIN deficits |-> Outstanding(deficits[i])]
             g == [i \in DOMAIN all |-> Outstanding(all[i])]
  <1>1. /\ n \in Nat /\ DOMAIN deficits = 1 .. n
        /\ all \in Seq(Deficit) /\ DOMAIN all = 1 .. (n + 1) /\ all[n + 1] = new
        /\ \A i \in 1 .. n : all[i] = deficits[i]
    OBVIOUS
  <1> HIDE DEF n, all
  <1>2. /\ \A i \in 1 .. (n + 1) : g[i] \in Int
        /\ g[n + 1] = Outstanding(new)
        /\ \A i \in 1 .. n : f[i] = g[i]
    BY <1>1, OutstandingInt
  <1> HIDE DEF f, g
  <1>3. SumFunctionOnSet(g, 1 .. (n + 1)) = SumFunctionOnSet(g, 1 .. n) + g[n + 1]
    BY <1>1, <1>2, SumUpTo
  <1>4. SumFunctionOnSet(f, 1 .. n) = SumFunctionOnSet(g, 1 .. n)
    BY <1>1, <1>2, IntervalFinite, SumSame
  <1>5. /\ Owed(all) = SumFunctionOnSet(g, 1 .. (n + 1))
        /\ Owed(deficits) = SumFunctionOnSet(f, 1 .. n)
    BY <1>1 DEF Owed, f, g
  <1>6. QED BY <1>2, <1>3, <1>4, <1>5 DEF all

\* Repaying one deficit changes what is owed by what it changes of that one.
LEMMA DeficitWritten ==
    ASSUME NEW deficits \in Seq(Deficit), NEW i \in DOMAIN deficits, NEW less \in Deficit
    PROVE  Owed([deficits EXCEPT ![i] = less]) =
              Owed(deficits) + (Outstanding(less) - Outstanding(deficits[i]))
  <1> DEFINE all == [deficits EXCEPT ![i] = less]
             f == [j \in DOMAIN deficits |-> Outstanding(deficits[j])]
             g == [j \in DOMAIN all |-> Outstanding(all[j])]
  <1>1. /\ DOMAIN all = DOMAIN deficits /\ all \in Seq(Deficit)
        /\ all[i] = less /\ \A j \in DOMAIN deficits \ {i} : all[j] = deficits[j]
    OBVIOUS
  <1> HIDE DEF all
  <1>2. /\ \A j \in DOMAIN deficits : f[j] \in Int /\ g[j] \in Int
        /\ \A j \in DOMAIN deficits \ {i} : g[j] = f[j]
        /\ g[i] = Outstanding(less) /\ f[i] = Outstanding(deficits[i])
    BY <1>1, OutstandingInt
  <1>3. IsFiniteSet(DOMAIN deficits)
    <2>1. DOMAIN deficits = 1 .. Len(deficits) /\ Len(deficits) \in Nat
      OBVIOUS
    <2>2. QED BY <2>1, IntervalFinite
  <1> HIDE DEF f, g
  <1>4. SumFunctionOnSet(g, DOMAIN deficits)
           = SumFunctionOnSet(f, DOMAIN deficits) + (g[i] - f[i])
    BY <1>2, <1>3, SumChange
  <1>5. /\ Owed(all) = SumFunctionOnSet(g, DOMAIN deficits)
        /\ Owed(deficits) = SumFunctionOnSet(f, DOMAIN deficits)
    BY <1>1 DEF Owed, f, g
  <1>6. QED BY <1>2, <1>4, <1>5 DEF all

----------------------------------------------------------------------------
(* What each operation of the ledger keeps explained, and what it leaves available *)


NotShort(b) == Available(b) < 0 => "RETURNED_FUNDS_RESERVATION_REVIEW" \in b.restrictions

\* A deficit is of a deposit whose journal is reversed.
DeficitsReversed(b) == \A i \in DOMAIN b.deficits : b.journal[b.deficits[i].of] = "REVERSED"

\* Posting moves the cash that its journal says.
LEMMA PostedKept ==
    ASSUME NEW b, Sound(b), NEW m \in Movements
    PROVE  /\ Kept(Posted(b, m), b)
           /\ Posted(b, m).cash = b.cash + (IF b.journal[m] = "NONE" THEN Effect(m) ELSE 0)
           /\ Posted(b, m).reserved = b.reserved
           /\ Posted(b, m).restrictions = b.restrictions
           /\ Posted(b, m).deficits = b.deficits
  <1>0. /\ b \in Book /\ b.cash \in Int
        /\ b.journal \in [Movements -> {"NONE", "POSTED", "REVERSED"}]
    BY DEF Sound, Book
  <1>1. CASE b.journal[m] # "NONE"
    BY <1>0, <1>1 DEF Posted, Kept
  <1>2. CASE b.journal[m] = "NONE"
    <2> DEFINE journal == [b.journal EXCEPT ![m] = "POSTED"]
               new == Posted(b, m)
    <2>1. new = [b EXCEPT !.cash = b.cash + Effect(m), !.journal = journal]
      BY <1>0, <1>2 DEF Posted, Book
    <2>2. /\ new.cash = b.cash + Effect(m) /\ new.journal = journal
          /\ new.reserved = b.reserved /\ new.reservation = b.reservation
          /\ new.deficits = b.deficits /\ new.restrictions = b.restrictions
      BY <1>0, <2>1 DEF Book
    <2>3. Counted(journal) = Counted(b.journal) + (Effect(m) - 0)
      BY <1>0, <1>2, JournalWritten
    <2>4. /\ Counted(b.journal) \in Int /\ Owed(b.deficits) \in Int /\ Effect(m) \in Int
      BY <1>0, SumsInt, AmountsMove
    <2> HIDE DEF new, journal
    <2>5. Unexplained(new) = Unexplained(b)
      BY <1>0, <2>2, <2>3, <2>4 DEF Unexplained
    <2>6. Loose(new) = Loose(b)
      BY <2>2 DEF Loose
    <2>7. QED BY <1>2, <2>2, <2>5, <2>6 DEF Kept, new
  <1>3. QED BY <1>1, <1>2

\* Reversing takes back the cash that its journal moved.
LEMMA ReversedKept ==
    ASSUME NEW b, Sound(b), NEW m \in Movements, b.journal[m] # "NONE"
    PROVE  /\ Kept(Reversed(b, m), b)
           /\ Reversed(b, m).cash = b.cash - (IF b.journal[m] = "REVERSED" THEN 0 ELSE Effect(m))
           /\ Reversed(b, m).reserved = b.reserved
           /\ Reversed(b, m).restrictions = b.restrictions
           /\ Reversed(b, m).deficits = b.deficits
  <1>0. /\ b \in Book /\ b.cash \in Int
        /\ b.journal \in [Movements -> {"NONE", "POSTED", "REVERSED"}]
    BY DEF Sound, Book
  <1>1. CASE b.journal[m] = "REVERSED"
    BY <1>0, <1>1 DEF Reversed, Kept
  <1>2. CASE b.journal[m] = "POSTED"
    <2> DEFINE journal == [b.journal EXCEPT ![m] = "REVERSED"]
               new == Reversed(b, m)
    <2>1. new = [b EXCEPT !.cash = b.cash - Effect(m), !.journal = journal]
      BY <1>0, <1>2 DEF Reversed, Book
    <2>2. /\ new.cash = b.cash - Effect(m) /\ new.journal = journal
          /\ new.reserved = b.reserved /\ new.reservation = b.reservation
          /\ new.deficits = b.deficits /\ new.restrictions = b.restrictions
      BY <1>0, <2>1 DEF Book
    <2>3. Counted(journal) = Counted(b.journal) + (0 - Effect(m))
      BY <1>0, <1>2, JournalWritten
    <2>4. /\ Counted(b.journal) \in Int /\ Owed(b.deficits) \in Int /\ Effect(m) \in Int
      BY <1>0, SumsInt, AmountsMove
    <2> HIDE DEF new, journal
    <2>5. Unexplained(new) = Unexplained(b)
      BY <1>0, <2>2, <2>3, <2>4 DEF Unexplained
    <2>6. Loose(new) = Loose(b)
      BY <2>2 DEF Loose
    <2>7. QED BY <1>2, <2>2, <2>5, <2>6 DEF Kept, new
  <1>3. QED BY <1>0, <1>1, <1>2

\* A new reservation is promised.
LEMMA ReservedKept ==
    ASSUME NEW b, Sound(b), NEW w \in Withdrawals, b.reservation[w] # "ACTIVE"
    PROVE  /\ Kept(Reserved(b, w), b)
           /\ Reserved(b, w).cash = b.cash
           /\ Reserved(b, w).reserved = b.reserved + Amount[w]
           /\ Reserved(b, w).restrictions = b.restrictions
           /\ Reserved(b, w).deficits = b.deficits
  <1>0. /\ b \in Book /\ b.reserved \in Int
        /\ b.reservation \in [Withdrawals -> {"NONE", "ACTIVE", "RELEASED", "CONSUMED"}]
    BY DEF Sound, Book
  <1> DEFINE reservation == [b.reservation EXCEPT ![w] = "ACTIVE"]
             new == Reserved(b, w)
  <1>1. new = [b EXCEPT !.reserved = b.reserved + Amount[w], !.reservation = reservation]
    BY <1>0 DEF Reserved, Book
  <1>2. /\ new.reserved = b.reserved + Amount[w] /\ new.reservation = reservation
        /\ new.cash = b.cash /\ new.journal = b.journal
        /\ new.deficits = b.deficits /\ new.restrictions = b.restrictions
    BY <1>0, <1>1 DEF Book
  <1>3. Promised(reservation) = Promised(b.reservation) + (Amount[w] - 0)
    BY <1>0, ReservationWritten
  <1>4. Promised(b.reservation) \in Int /\ Amount[w] \in Int
    BY <1>0, SumsInt, AmountsMove, Kinds
  <1> HIDE DEF new, reservation
  <1>5. Loose(new) = Loose(b)
    BY <1>0, <1>2, <1>3, <1>4 DEF Loose
  <1>6. Unexplained(new) = Unexplained(b)
    BY <1>2 DEF Unexplained
  <1>7. QED BY <1>2, <1>5, <1>6 DEF Kept, new

\* An active reservation that ends is promised no more.
LEMMA EndedKept ==
    ASSUME NEW b, Sound(b), NEW w \in Withdrawals, NEW as \in {"RELEASED", "CONSUMED"},
           Endable(b, w, as)
    PROVE  /\ Kept(Ended(b, w, as), b)
           /\ Ended(b, w, as).cash = b.cash
           /\ Ended(b, w, as).reserved = b.reserved - (IF b.reservation[w] = as THEN 0 ELSE Amount[w])
           /\ Ended(b, w, as).restrictions = b.restrictions
           /\ Ended(b, w, as).deficits = b.deficits
  <1>0. /\ b \in Book /\ b.reserved \in Int
        /\ b.reservation \in [Withdrawals -> {"NONE", "ACTIVE", "RELEASED", "CONSUMED"}]
    BY DEF Sound, Book
  <1>1. CASE b.reservation[w] = as
    BY <1>0, <1>1 DEF Ended, Kept
  <1>2. CASE b.reservation[w] # as
    <2> DEFINE reservation == [b.reservation EXCEPT ![w] = as]
               new == Ended(b, w, as)
    <2>0. b.reservation[w] = "ACTIVE"
      BY <1>2 DEF Endable
    <2>1. new = [b EXCEPT !.reserved = b.reserved - Amount[w], !.reservation = reservation]
      BY <1>0, <1>2 DEF Ended, Book
    <2>2. /\ new.reserved = b.reserved - Amount[w] /\ new.reservation = reservation
          /\ new.cash = b.cash /\ new.journal = b.journal
          /\ new.deficits = b.deficits /\ new.restrictions = b.restrictions
      BY <1>0, <2>1 DEF Book
    <2>3. Promised(reservation) = Promised(b.reservation) + (0 - Amount[w])
      BY <1>0, <2>0, ReservationWritten
    <2>4. Promised(b.reservation) \in Int /\ Amount[w] \in Int
      BY <1>0, SumsInt, AmountsMove, Kinds
    <2> HIDE DEF new, reservation
    <2>5. Loose(new) = Loose(b)
      BY <1>0, <2>2, <2>3, <2>4 DEF Loose
    <2>6. Unexplained(new) = Unexplained(b)
      BY <2>2 DEF Unexplained
    <2>7. QED BY <1>2, <2>2, <2>5, <2>6 DEF Kept, new
  <1>3. QED BY <1>1, <1>2

\* Protecting an account puts it under review when a reservation is active.
LEMMA ProtectedKept ==
    ASSUME NEW b, Sound(b)
    PROVE  /\ Kept(Protected(b), b)
           /\ Protected(b).cash = b.cash /\ Protected(b).reserved = b.reserved
           /\ Protected(b).deficits = b.deficits
           /\ b.restrictions \subseteq Protected(b).restrictions
           /\ (\E w \in Withdrawals : b.reservation[w] = "ACTIVE") =>
                  "RETURNED_FUNDS_RESERVATION_REVIEW" \in Protected(b).restrictions
  <1>0. b \in Book
    BY DEF Sound
  <1> DEFINE new == Protected(b)
  <1>1. /\ new.cash = b.cash /\ new.reserved = b.reserved /\ new.deficits = b.deficits
        /\ new.journal = b.journal /\ new.reservation = b.reservation
        /\ b.restrictions \subseteq new.restrictions
        /\ (\E w \in Withdrawals : b.reservation[w] = "ACTIVE") =>
               "RETURNED_FUNDS_RESERVATION_REVIEW" \in new.restrictions
    BY <1>0 DEF Protected, Book
  <1> HIDE DEF new
  <1>2. QED BY <1>1 DEF Kept, Unexplained, Loose, new

\* What is missing becomes a deficit of the deposit returned, unless it has one.
LEMMA RecordedKept ==
    ASSUME NEW b, Sound(b), NEW d \in Deposits, b.cash < 0
    PROVE  /\ Kept(DeficitRecorded(b, d), b)
           /\ DeficitRecorded(b, d).reserved = b.reserved
           /\ b.restrictions \subseteq DeficitRecorded(b, d).restrictions
           /\ \/ /\ \E i \in DOMAIN b.deficits : b.deficits[i].of = d
                 /\ DeficitRecorded(b, d) = b
              \/ DeficitRecorded(b, d).cash = 0
           /\ \A i \in DOMAIN DeficitRecorded(b, d).deficits :
                 \/ DeficitRecorded(b, d).deficits[i].of = d
                 \/ i \in DOMAIN b.deficits /\ DeficitRecorded(b, d).deficits[i] = b.deficits[i]
  <1>0. /\ b \in Book /\ b.cash \in Int /\ b.deficits \in Seq(Deficit)
    BY DEF Sound, Book
  <1>1. CASE \E i \in DOMAIN b.deficits : b.deficits[i].of = d
    BY <1>0, <1>1 DEF DeficitRecorded, Kept
  <1>2. CASE ~ \E i \in DOMAIN b.deficits : b.deficits[i].of = d
    <2> DEFINE deficit == [of |-> d, amount |-> -b.cash, recovered |-> 0]
               deficits == Append(b.deficits, deficit)
               new == DeficitRecorded(b, d)
    <2>1. deficit \in Deficit /\ Outstanding(deficit) = -b.cash
      BY <1>0 DEF Deficit, Outstanding
    <2>2. new = [b EXCEPT !.cash = 0, !.deficits = deficits,
                          !.restrictions = b.restrictions \cup {"RETURNED_FUNDS_DEFICIT"}]
      BY <1>0, <1>2 DEF DeficitRecorded, Book
    <2>3. /\ new.cash = 0 /\ new.deficits = deficits
          /\ new.journal = b.journal /\ new.reservation = b.reservation
          /\ new.reserved = b.reserved /\ b.restrictions \subseteq new.restrictions
      BY <1>0, <2>2 DEF Book
    <2> HIDE DEF deficit
    <2>4. Owed(deficits) = Owed(b.deficits) + Outstanding(deficit)
      BY <1>0, <2>1, DeficitAppended
    <2>5. \A i \in DOMAIN deficits : \/ deficits[i] = deficit
                                     \/ i \in DOMAIN b.deficits /\ deficits[i] = b.deficits[i]
      BY <1>0, <2>1
    <2>6. deficit.of = d
      BY DEF deficit
    <2>7. Counted(b.journal) \in Int /\ Owed(b.deficits) \in Int
      BY <1>0, SumsInt
    <2> HIDE DEF new, deficits
    <2>8. Unexplained(new) = Unexplained(b)
      BY <1>0, <2>1, <2>3, <2>4, <2>7 DEF Unexplained
    <2>9. Loose(new) = Loose(b)
      BY <2>3 DEF Loose
    <2>10. QED BY <2>3, <2>5, <2>6, <2>8, <2>9 DEF Kept, new
  <1>3. QED BY <1>1, <1>2

\* A recovery repays a deficit with the cash it takes, and takes no more than is
\* available; only then may it end the review.
LEMMA RecoveredKept ==
    ASSUME NEW b, Sound(b), NotShort(b)
    PROVE  /\ Kept(Recovered(b), b)
           /\ NotShort(Recovered(b))
           /\ DOMAIN Recovered(b).deficits = DOMAIN b.deficits
           /\ \A i \in DOMAIN b.deficits : Recovered(b).deficits[i].of = b.deficits[i].of
  <1>1. CASE OpenDeficits(b) = {} \/ Available(b) <= 0
    BY <1>1 DEF Recovered, Kept
  <1>2. CASE ~(OpenDeficits(b) = {} \/ Available(b) <= 0)
    <2> DEFINE i == CHOOSE i \in OpenDeficits(b) : \A j \in OpenDeficits(b) : i <= j
               deficit == b.deficits[i]
               amount == Lesser(Available(b), Outstanding(deficit))
               less == [deficit EXCEPT !.recovered = @ + amount]
               deficits == [b.deficits EXCEPT ![i] = less]
               repaid == [b EXCEPT !.cash = b.cash - amount, !.deficits = deficits]
    <2>1. b \in Book /\ b.deficits \in Seq(Deficit) /\ b.cash \in Int /\ b.reserved \in Int
      BY DEF Sound, Book
    <2>2. i \in OpenDeficits(b)
      BY <1>2, <2>1, OldestDeficit
    <2>3. Recovered(b) = Lifted(repaid)
      BY <1>2 DEF Recovered
    <2> HIDE DEF i
    <2>4. i \in DOMAIN b.deficits /\ deficit \in Deficit /\ Outstanding(deficit) > 0
      BY <2>1, <2>2 DEF OpenDeficits
    <2>5. deficit = b.deficits[i]
      OBVIOUS
    <2> HIDE DEF deficit
    <2>6. amount \in Nat /\ amount <= Available(b)
      BY <1>2, <2>1, <2>4 DEF Lesser, Available, Outstanding, Deficit
    <2> HIDE DEF amount
    <2>7. less \in Deficit /\ Outstanding(less) = Outstanding(deficit) - amount
          /\ less.of = deficit.of
      BY <2>4, <2>6 DEF Deficit, Outstanding
    <2> HIDE DEF less
    <2>8. Owed(deficits) = Owed(b.deficits) + (Outstanding(less) - Outstanding(deficit))
      BY <2>1, <2>4, <2>5, <2>7, DeficitWritten
    <2>9. /\ DOMAIN deficits = DOMAIN b.deficits
          /\ \A j \in DOMAIN b.deficits : deficits[j].of = b.deficits[j].of
      BY <2>1, <2>4, <2>5, <2>7
    <2> HIDE DEF deficits
    <2>10. /\ repaid.cash = b.cash - amount /\ repaid.deficits = deficits
           /\ repaid.reserved = b.reserved /\ repaid.journal = b.journal
           /\ repaid.reservation = b.reservation /\ repaid.restrictions = b.restrictions
      BY <2>1 DEF Book
    <2>11. Outstanding(deficit) \in Int /\ Counted(b.journal) \in Int /\ Owed(b.deficits) \in Int
      BY <2>1, <2>4, SumsInt DEF Outstanding, Deficit
    <2>12. /\ \A field \in {"cash", "deficits", "reserved", "journal", "reservation"} :
                 Lifted(repaid)[field] = repaid[field]
      BY <2>1 DEF Lifted, Book
    <2> HIDE DEF repaid
    <2>13. Unexplained(Lifted(repaid)) = Unexplained(b)
      BY <2>1, <2>6, <2>7, <2>8, <2>10, <2>11, <2>12 DEF Unexplained
    <2>14. Loose(Lifted(repaid)) = Loose(b)
      BY <2>10, <2>12 DEF Loose
    <2>15. Available(Lifted(repaid)) >= 0
      BY <2>1, <2>6, <2>10, <2>12 DEF Available
    <2>16. Available(Lifted(repaid)) \in Int
      BY <2>1, <2>6, <2>10, <2>12 DEF Available
    <2>17. QED BY <2>3, <2>9, <2>10, <2>12, <2>13, <2>14, <2>15, <2>16 DEF Kept, NotShort
  <1>3. QED BY <1>1, <1>2

\* Cash is reserved only by active reservations.
LEMMA SomeActive ==
    ASSUME NEW b, Sound(b), Loose(b) = 0, b.reserved # 0
    PROVE  \E w \in Withdrawals : b.reservation[w] = "ACTIVE"
  <1> DEFINE f == [w \in Withdrawals |-> IF b.reservation[w] = "ACTIVE" THEN Amount[w] ELSE 0]
  <1> SUFFICES ASSUME \A w \in Withdrawals : b.reservation[w] # "ACTIVE"
               PROVE  FALSE
    OBVIOUS
  <1>1. \A w \in Withdrawals : f[w] = 0
    OBVIOUS
  <1> HIDE DEF f
  <1>2. SumFunctionOnSet(f, Withdrawals) = 0
    BY <1>1, MovementsFinite, SumZero
  <1>3. Promised(b.reservation) = 0
    BY <1>2 DEF Promised, f
  <1>4. b.reserved \in Int
    BY DEF Sound, Book
  <1>5. QED BY <1>3, <1>4 DEF Loose

----------------------------------------------------------------------------
(* What each transaction keeps explained *)

LedgerSound(b) == Loose(b) = 0 /\ NotShort(b) /\ DeficitsReversed(b)

\* Journals once written stay written.
Written(a, b) == \A m \in Movements : b.journal[m] # "NONE" => a.journal[m] # "NONE"

\* A settlement is explained, and leaves no shortage behind.
LEMMA SettledKept ==
    ASSUME Sound(book), LedgerSound(book), NEW m \in Movements,
           m \in Withdrawals => m \in linked /\ Endable(book, m, "CONSUMED") /\ Reserving(m),
           linked \subseteq Withdrawals
    PROVE  Kept(Settled(m), book) /\ LedgerSound(Settled(m)) /\ Written(Settled(m), book)
  <1> DEFINE posted == Posted(book, m)
  <1>1. /\ Sound(posted) /\ posted.reservation = book.reservation
        /\ posted.journal = IF book.journal[m] # "NONE" THEN book.journal
                            ELSE [book.journal EXCEPT ![m] = "POSTED"]
    BY PostedSound
  <1>2. /\ Kept(posted, book)
        /\ posted.cash = book.cash + (IF book.journal[m] = "NONE" THEN Effect(m) ELSE 0)
        /\ posted.reserved = book.reserved
        /\ posted.restrictions = book.restrictions
        /\ posted.deficits = book.deficits
    BY PostedKept
  <1>3. /\ book \in Book /\ posted \in Book
        /\ book.journal \in [Movements -> {"NONE", "POSTED", "REVERSED"}]
        /\ book.deficits \in Seq(Deficit) /\ book.cash \in Int /\ book.reserved \in Int
    BY <1>1 DEF Sound, Book
  <1>4. Amount[m] \in Nat \ {0}
    BY AmountsMove
  <1> HIDE DEF posted
  <1>5. Written(posted, book)
    BY <1>1, <1>3 DEF Written
  <1>6. DeficitsReversed(posted)
    <2> SUFFICES ASSUME NEW i \in DOMAIN book.deficits
                 PROVE  posted.journal[book.deficits[i].of] = "REVERSED"
      BY <1>2 DEF DeficitsReversed
    <2>1. book.deficits[i] \in Deficit
      BY <1>3
    <2>2. book.journal[book.deficits[i].of] = "REVERSED" /\ book.deficits[i].of \in Movements
      BY <2>1, Kinds DEF LedgerSound, DeficitsReversed, Deficit
    <2>3. QED BY <1>1, <1>3, <2>2
  <1>7. CASE m \in Deposits
    <2>1. Settled(m) = Recovered(posted)
      BY <1>7 DEF Settled, posted
    <2>2. posted.cash \in Int /\ posted.cash >= book.cash
      BY <1>2, <1>3, <1>4, <1>7 DEF Effect
    <2>3. NotShort(posted)
      BY <1>2, <1>3, <2>2 DEF LedgerSound, NotShort, Available
    <2>4. /\ Kept(Recovered(posted), posted) /\ NotShort(Recovered(posted))
          /\ DOMAIN Recovered(posted).deficits = DOMAIN posted.deficits
          /\ \A i \in DOMAIN posted.deficits :
                Recovered(posted).deficits[i].of = posted.deficits[i].of
      BY <1>1, <2>3, RecoveredKept
    <2>5. SameMovements(Recovered(posted), posted)
      BY <1>1, RecoveredSound
    <2>6. DeficitsReversed(Recovered(posted))
      BY <1>6, <2>4, <2>5 DEF DeficitsReversed, SameMovements
    <2>7. Kept(Recovered(posted), book) /\ Loose(Recovered(posted)) = 0
      BY <1>2, <2>4 DEF Kept, LedgerSound
    <2>8. Written(Recovered(posted), book)
      BY <1>5, <2>5 DEF Written, SameMovements
    <2>9. QED BY <2>1, <2>4, <2>6, <2>7, <2>8 DEF LedgerSound
  <1>8. CASE m \in Withdrawals
    <2> DEFINE new == Ended(posted, m, "CONSUMED")
    <2>1. Settled(m) = new
      BY <1>8, Kinds DEF Settled, Consumed, posted
    <2>2. Endable(posted, m, "CONSUMED") /\ Effect(m) = -Amount[m]
      BY <1>1, <1>8, Kinds DEF Endable, Effect
    <2>3. /\ Kept(new, posted) /\ new.cash = posted.cash
          /\ new.reserved = posted.reserved
                 - (IF posted.reservation[m] = "CONSUMED" THEN 0 ELSE Amount[m])
          /\ new.restrictions = posted.restrictions /\ new.deficits = posted.deficits
      BY <1>1, <1>8, <2>2, EndedKept
    <2>4. new.journal = posted.journal
      BY <1>1, <1>8, EndedSound
    <2> HIDE DEF new
    <2>5. book.reservation[m] = "CONSUMED" => book.journal[m] # "NONE"
      BY <1>8 DEF Reserving
    <2>6. new.cash - new.reserved >= book.cash - book.reserved
      <3>1. CASE book.reservation[m] = "CONSUMED"
        BY <1>1, <1>2, <1>3, <2>3, <2>5, <3>1
      <3>2. CASE book.reservation[m] # "CONSUMED"
        BY <1>1, <1>2, <1>3, <1>4, <2>2, <2>3, <3>2
      <3>3. QED BY <3>1, <3>2
    <2>7. new.cash \in Int /\ new.reserved \in Int
      BY <1>1, <1>2, <1>3, <1>4, <2>2, <2>3
    <2>8. NotShort(new)
      BY <1>2, <1>3, <2>3, <2>6, <2>7 DEF LedgerSound, NotShort, Available
    <2>9. DeficitsReversed(new) /\ Written(new, book)
      BY <1>5, <1>6, <2>3, <2>4 DEF DeficitsReversed, Written
    <2>10. Kept(new, book) /\ Loose(new) = 0
      BY <1>2, <2>3 DEF Kept, LedgerSound
    <2>11. QED BY <2>1, <2>8, <2>9, <2>10 DEF LedgerSound
  <1>9. QED BY <1>7, <1>8, Kinds

\* Releasing a reservation that can be released leaves more available.
LEMMA ReleasedKept ==
    ASSUME Sound(book), LedgerSound(book), NEW w \in Withdrawals, Endable(book, w, "RELEASED")
    PROVE  /\ Kept(Released(book, w), book)
           /\ LedgerSound(Released(book, w)) /\ Written(Released(book, w), book)
  <1> DEFINE new == Ended(book, w, "RELEASED")
  <1>1. /\ Kept(new, book) /\ new.cash = book.cash
        /\ new.reserved = book.reserved
               - (IF book.reservation[w] = "RELEASED" THEN 0 ELSE Amount[w])
        /\ new.restrictions = book.restrictions /\ new.deficits = book.deficits
    BY EndedKept
  <1>2. new.journal = book.journal
    BY EndedSound
  <1>3. Amount[w] \in Nat /\ book.cash \in Int /\ book.reserved \in Int
    BY AmountsMove, Kinds DEF Sound, Book
  <1>4. new = Released(book, w)
    BY DEF Released
  <1> HIDE DEF new
  <1>5. new.cash - new.reserved >= book.cash - book.reserved
        /\ new.cash \in Int /\ new.reserved \in Int
    BY <1>1, <1>3
  <1>6. NotShort(new)
    BY <1>1, <1>3, <1>5 DEF LedgerSound, NotShort, Available
  <1>7. DeficitsReversed(new) /\ Written(new, book) /\ Loose(new) = 0
    BY <1>1, <1>2 DEF DeficitsReversed, Written, LedgerSound, Kept
  <1>8. QED BY <1>1, <1>4, <1>6, <1>7 DEF LedgerSound

\* A return is explained, by a deficit if need be; what reservations rest on and it
\* takes away, it leaves under review.
LEMMA ReturnedKept ==
    ASSUME Sound(book), LedgerSound(book), NEW d \in Deposits, book.journal[d] # "NONE"
    PROVE  Kept(Returned(d), book) /\ LedgerSound(Returned(d)) /\ Written(Returned(d), book)
  <1> DEFINE before == Protected(book)
             reversed == Reversed(before, d)
             recorded == DeficitRecorded(reversed, d)
             last == IF reversed.cash < 0 THEN recorded ELSE reversed
  <1>0. d \in Movements
    BY Kinds
  <1>1. /\ Sound(before) /\ before.journal = book.journal /\ before.reservation = book.reservation
    BY ProtectedSound DEF SameMovements
  <1>2. /\ Kept(before, book)
        /\ before.cash = book.cash /\ before.reserved = book.reserved
        /\ before.deficits = book.deficits /\ book.restrictions \subseteq before.restrictions
        /\ (\E w \in Withdrawals : book.reservation[w] = "ACTIVE") =>
               "RETURNED_FUNDS_RESERVATION_REVIEW" \in before.restrictions
    BY ProtectedKept
  <1>3. /\ Sound(reversed) /\ reversed.reservation = before.reservation
        /\ reversed.journal = [before.journal EXCEPT ![d] = "REVERSED"]
    BY <1>0, <1>1, ReversedSound
  <1>4. /\ Kept(reversed, before)
        /\ reversed.cash = before.cash - (IF before.journal[d] = "REVERSED" THEN 0 ELSE Effect(d))
        /\ reversed.reserved = before.reserved
        /\ reversed.restrictions = before.restrictions
        /\ reversed.deficits = before.deficits
    BY <1>0, <1>1, ReversedKept
  <1>5. Sound(recorded) /\ SameMovements(recorded, reversed)
    BY <1>3, DeficitRecordedSound
  <1>6. reversed.cash < 0 =>
          /\ Kept(recorded, reversed) /\ recorded.reserved = reversed.reserved
          /\ reversed.restrictions \subseteq recorded.restrictions
          /\ \/ /\ \E i \in DOMAIN reversed.deficits : reversed.deficits[i].of = d
                /\ recorded = reversed
             \/ recorded.cash = 0
          /\ \A i \in DOMAIN recorded.deficits :
                \/ recorded.deficits[i].of = d
                \/ i \in DOMAIN reversed.deficits /\ recorded.deficits[i] = reversed.deficits[i]
    BY <1>3, RecordedKept
  <1>7. Returned(d) = IF reversed.cash < 0 THEN Recovered(last) ELSE last
    BY DEF Returned
  <1>8. /\ book.journal \in [Movements -> {"NONE", "POSTED", "REVERSED"}]
        /\ book.deficits \in Seq(Deficit) /\ book.cash \in Int /\ book.reserved \in Int
    BY DEF Sound, Book
  <1> HIDE DEF before, reversed, recorded
  <1>9. /\ Sound(last) /\ last.journal = [book.journal EXCEPT ![d] = "REVERSED"]
        /\ last.reserved = book.reserved /\ book.restrictions \subseteq last.restrictions
        /\ before.restrictions \subseteq last.restrictions
    BY <1>1, <1>2, <1>3, <1>4, <1>5, <1>6 DEF SameMovements
  <1>10. Kept(last, book) /\ Loose(last) = 0
    BY <1>2, <1>4, <1>6 DEF Kept, LedgerSound
  <1>11. DeficitsReversed(last)
    <2> SUFFICES ASSUME NEW i \in DOMAIN last.deficits
                 PROVE  last.journal[last.deficits[i].of] = "REVERSED"
      BY DEF DeficitsReversed
    <2>1. \/ last.deficits[i].of = d
          \/ i \in DOMAIN book.deficits /\ last.deficits[i] = book.deficits[i]
      BY <1>2, <1>4, <1>6
    <2>2. i \in DOMAIN book.deficits => /\ book.deficits[i].of \in Movements
                                        /\ book.journal[book.deficits[i].of] = "REVERSED"
      <3>1. i \in DOMAIN book.deficits => book.deficits[i] \in Deficit
        BY <1>8
      <3>2. QED BY <3>1, Kinds DEF LedgerSound, DeficitsReversed, Deficit
    <2>3. last.journal[d] = "REVERSED"
      BY <1>0, <1>8, <1>9
    <2> HIDE DEF last
    <2>4. QED BY <1>8, <1>9, <2>1, <2>2, <2>3
  <1>12. NotShort(last)
    <2>1. CASE reversed.cash < 0 /\ recorded = reversed
               /\ \E i \in DOMAIN reversed.deficits : reversed.deficits[i].of = d
      <3>1. book.journal[d] = "REVERSED"
        BY <1>2, <1>4, <2>1 DEF LedgerSound, DeficitsReversed
      <3>2. last.cash = book.cash
        BY <1>1, <1>2, <1>4, <1>8, <2>1, <3>1
      <3> HIDE DEF last
      <3>3. QED BY <1>9, <3>2 DEF LedgerSound, NotShort, Available
    <2>2. CASE last.cash >= 0
      <3>1. Available(last) < 0 => last.reserved # 0
        <4>1. last.cash \in Int /\ last.reserved \in Int
          BY <1>9 DEF Sound, Book
        <4> HIDE DEF last
        <4>2. QED BY <2>2, <4>1 DEF Available
      <3>2. last.reserved # 0 => \E w \in Withdrawals : book.reservation[w] = "ACTIVE"
        BY <1>9, SomeActive DEF LedgerSound
      <3> HIDE DEF last
      <3>3. QED BY <1>2, <1>9, <3>1, <3>2 DEF NotShort
    <2>3. CASE reversed.cash < 0
      BY <1>6, <2>1, <2>2, <2>3
    <2>4. CASE ~(reversed.cash < 0)
      <3>1. reversed.cash \in Int
        BY <1>3 DEF Sound, Book
      <3>2. QED BY <2>2, <2>4, <3>1
    <2>5. QED BY <2>3, <2>4
  <1>13. Written(last, book)
    BY <1>0, <1>8, <1>9 DEF Written
  <1> HIDE DEF last
  <1>14. /\ Kept(Recovered(last), last) /\ NotShort(Recovered(last))
         /\ DOMAIN Recovered(last).deficits = DOMAIN last.deficits
         /\ \A i \in DOMAIN last.deficits :
               Recovered(last).deficits[i].of = last.deficits[i].of
    BY <1>9, <1>12, RecoveredKept
  <1>15. SameMovements(Recovered(last), last)
    BY <1>9, RecoveredSound
  <1>16. /\ Kept(Recovered(last), book) /\ Loose(Recovered(last)) = 0
         /\ DeficitsReversed(Recovered(last)) /\ Written(Recovered(last), book)
    BY <1>10, <1>11, <1>13, <1>14, <1>15 DEF Kept, DeficitsReversed, Written, SameMovements
  <1>17. QED BY <1>7, <1>10, <1>11, <1>12, <1>13, <1>14, <1>16 DEF LedgerSound

----------------------------------------------------------------------------
(* The ledger after every step *)

\* A caller moves on, but not to a return.
MovesOn(c) ==
    \/ UNCHANGED task
    \/ Ends(c)
    \/ \E s \in Steps \ {"returning"} : Go(c, s) \/ \E m \in Movements : Starts(c, m, s)

\* Nobody comes to a return that way.
LEMMA NobodyReturns ==
    ASSUME MoneyInv, NEW c \in Callers, MovesOn(c)
    PROVE  \A q \in Callers : task'[q].step = "returning" => task'[q] = task[q]
  <1>1. TypeOK
    BY DEF MoneyInv
  <1>2. CASE Ends(c)
    <2>1. task' = [task EXCEPT ![c] = [of |-> NoMovement, step |-> "idle"]] /\ "idle" \in Steps
      BY <1>2 DEF Ends, Idle, Steps
    <2>2. task'[c].step = "idle" /\ \A q \in Callers : q # c => task'[q] = task[q]
      BY <1>1, <2>1, TaskWritten
    <2>3. QED BY <2>2
  <1>3. ASSUME NEW s \in Steps \ {"returning"}, Go(c, s) PROVE task'[c].step = s
                /\ \A q \in Callers : q # c => task'[q] = task[q]
    BY <1>1, <1>3, TaskGone
  <1>4. ASSUME NEW s \in Steps \ {"returning"}, NEW m \in Movements, Starts(c, m, s)
        PROVE  task'[c].step = s /\ \A q \in Callers : q # c => task'[q] = task[q]
    BY <1>1, <1>4, TaskStarted
  <1>5. QED BY <1>2, <1>3, <1>4 DEF MovesOn

\* Which steps touch the book or the linked withdrawals, and who is about to return.
LEMMA LedgerSteps ==
    ASSUME MoneyInv, Next
    PROVE  /\ linked \subseteq linked'
           /\ \/ UNCHANGED <<book, spent>>
              \/ \E c \in Callers : Complete(c) \/ Fail(c) \/ Cancel(c) \/ Hold(c) \/ Return(c)
              \/ \E w \in Withdrawals : Reserve(w) \/ Undo(w)
              \/ \E amount \in 1 .. MaxSpent : Spend(amount)
           /\ \A c \in Callers : task'[c].step = "returning" =>
                  task'[c] = task[c] \/ ReturnCheck(c)
  <1> DEFINE Touches == \/ UNCHANGED <<book, spent>>
                        \/ \E c \in Callers : \/ Complete(c) \/ Fail(c) \/ Cancel(c)
                                              \/ Hold(c) \/ Return(c)
                        \/ \E w \in Withdrawals : Reserve(w) \/ Undo(w)
                        \/ \E amount \in 1 .. MaxSpent : Spend(amount)
             Goal == /\ linked \subseteq linked' /\ Touches
                     /\ \A c \in Callers : task'[c].step = "returning" =>
                            task'[c] = task[c] \/ ReturnCheck(c)
  <1>0. task \in [Callers -> Task] /\ (Handlers \cup Readers \cup Movements) \subseteq Callers
    BY Kinds DEF MoneyInv, TypeOK
  <1>1. ASSUME NEW c \in Callers, Transaction(c) \/ Die(c)
        PROVE  Goal
    <2>1. CASE ReturnCheck(c)
      BY <1>0, <2>1 DEF ReturnCheck, Check, Go, Ends, rows, bounds
    <2>2. CASE HoldCheck(c)
      <3>1. UNCHANGED <<linked, book, spent>> /\ MovesOn(c)
        BY <2>2 DEF HoldCheck, Check, MovesOn, Steps, rows, bounds
      <3>2. QED BY <3>1, NobodyReturns
    <2>3. CASE Processing(c) \/ Complete(c) \/ Fail(c) \/ Cancel(c) \/ Hold(c) \/ Return(c) \/ Die(c)
      <3>1. Ends(c) /\ UNCHANGED linked
        BY <2>3 DEF Processing, Complete, Fail, Cancel, Hold, Return, Die, rows
      <3>2. \A q \in Callers : task'[q].step = "returning" => task'[q] = task[q]
        BY <3>1, NobodyReturns DEF MovesOn
      <3>3. Touches
        BY <2>3 DEF Processing, Die, bounds
      <3>4. QED BY <3>1, <3>2, <3>3
    <2>4. QED BY <1>1, <2>1, <2>2, <2>3 DEF Transaction
  <1>2. ASSUME NEW d \in Deposits, RequestDeposit(d) \/ DepositRequest(d) \/ Dispute(d)
        PROVE  Goal
    <2>1. UNCHANGED <<linked, book, spent>>
      BY <1>2 DEF RequestDeposit, DepositRequest, Pay, RecordPayment, Dispute, rows, bounds
    <2>2. MovesOn(d)
      BY <1>2, Kinds DEF RequestDeposit, DepositRequest, Pay, RecordPayment, Dispute, MovesOn, Steps
    <2>3. QED BY <1>0, <2>1, <2>2, NobodyReturns, Kinds
  <1>3. ASSUME NEW w \in Withdrawals,
               RequestWithdrawal(w) \/ WithdrawalRequest(w) \/ ProcessingFails(w)
        PROVE  Goal
    <2>1. linked \subseteq linked'
      BY <1>3 DEF RequestWithdrawal, WithdrawalRequest, Reserve, Link, Undo, Transfer, Payout,
                  KeepPayout, ProcessingFails, rows
    <2>2. Touches
      BY <1>3 DEF RequestWithdrawal, WithdrawalRequest, Link, Transfer, Payout,
                  KeepPayout, ProcessingFails, rows, bounds
    <2>3. MovesOn(w)
      <3>1. CASE RequestWithdrawal(w) \/ Reserve(w) \/ Link(w) \/ Undo(w) \/ ProcessingFails(w)
        BY <3>1, Kinds DEF RequestWithdrawal, Reserve, Link, Undo, ProcessingFails, MovesOn, Steps
      <3>2. CASE Transfer(w) \/ Payout(w) \/ KeepPayout(w)
        BY <3>2 DEF Transfer, Payout, KeepPayout, ReviewPayout, MovesOn, Steps
      <3>3. QED BY <1>3, <3>1, <3>2 DEF WithdrawalRequest
    <2>4. QED BY <1>0, <2>1, <2>2, <2>3, NobodyReturns, Kinds
  <1>4. ASSUME NEW h \in Handlers, NEW e \in Events,
               \/ e[1] \in Deposits /\ PaymentEvent(h, e[1], e[2])
               \/ e[1] \in Withdrawals /\ PayoutEvent(h, e[1], e[2])
        PROVE  Goal
    <2>1. UNCHANGED <<linked, book, spent>>
      BY <1>4 DEF PaymentEvent, PayoutEvent, rows, bounds
    <2>2. MovesOn(h)
      <3>1. CASE e[1] \in Deposits /\ PaymentEvent(h, e[1], e[2])
        <4>1. e[2] \in PaymentKinds
          BY <3>1, Kinds DEF Events, PaymentKinds
        <4>2. Response(e[1], e[2]) \in Steps \ {"returning"}
          BY <4>1, Responses DEF Steps
        <4>3. Begins(h, e[1], Response(e[1], e[2]))
          BY <3>1 DEF PaymentEvent
        <4>4. QED BY <3>1, <4>2, <4>3, Kinds DEF Begins, MovesOn
      <3>2. CASE e[1] \in Withdrawals /\ PayoutEvent(h, e[1], e[2])
        <4>1. e[2] \in {"updated", "paid", "bounced"}
          BY <3>2, Kinds DEF Events
        <4>2. UNCHANGED task \/ Starts(h, e[1], PayoutCall[e[2]])
          BY <3>2 DEF PayoutEvent, ObservePayout
        <4>3. PayoutCall[e[2]] \in Steps \ {"returning"}
          BY <4>1 DEF PayoutCall, Steps
        <4>4. QED BY <3>2, <4>2, <4>3, Kinds DEF MovesOn
      <3>3. QED BY <1>4, <3>1, <3>2
    <2>3. QED BY <1>0, <2>1, <2>2, NobodyReturns
  <1>5. ASSUME NEW r \in Readers, Reconcile(r)
        PROVE  Goal
    <2>1. UNCHANGED <<linked, book, spent>>
      BY <1>5 DEF Reconcile, ReconcileDeposit, ReconcilePayout, rows, bounds
    <2>2. MovesOn(r)
      <3>1. CASE \E d \in Deposits : ReconcileDeposit(r, d)
        BY <3>1, Kinds DEF ReconcileDeposit, MovesOn, Steps
      <3>2. CASE \E w \in Withdrawals : ReconcilePayout(r, w)
        <4>1. PICK w \in Withdrawals, kind \in {"paid", "bounced", "updated"} :
                ObservePayout(r, w, kind)
          BY <3>2 DEF ReconcilePayout
        <4>2. Starts(r, w, PayoutCall[kind]) /\ PayoutCall[kind] \in Steps \ {"returning"}
          BY <4>1 DEF ObservePayout, PayoutCall, Steps
        <4>3. QED BY <4>2, Kinds DEF MovesOn
      <3>3. QED BY <1>5, <3>1, <3>2 DEF Reconcile
    <2>3. QED BY <1>0, <2>1, <2>2, NobodyReturns
  <1>6. CASE \E m \in Movements : Stripe(m)
    BY <1>6 DEF Stripe, rows, bounds
  <1>7. CASE \E amount \in 1 .. MaxSpent : Spend(amount)
    BY <1>7 DEF Spend, rows
  <1> HIDE DEF Goal
  <1>8. Goal
    BY <1>1, <1>2, <1>3, <1>4, <1>5, <1>6, <1>7 DEF Next, Goal
  <1>9. QED BY <1>8 DEF Goal

LedgerInv ==
    /\ Unexplained(book) = Opening - spent
    /\ LedgerSound(book)
    /\ \A w \in Withdrawals : book.reservation[w] = "CONSUMED" => w \in linked
    /\ \A c \in Callers : task[c].step = "returning" => book.journal[task[c].of] # "NONE"

\* Only a linked reservation is consumed.
Consumes(a) == \A w \in Withdrawals : a.reservation[w] = "CONSUMED" => w \in linked

\* What a step makes of the book when it spends nothing.
Explains(a) == Kept(a, book) /\ LedgerSound(a) /\ Written(a, book) /\ Consumes(a)

\* The transactions on movements.
LEMMA TransactionExplains ==
    ASSUME MoneyInv, LedgerInv, NEW c \in Callers,
           Complete(c) \/ Fail(c) \/ Cancel(c) \/ Hold(c) \/ Return(c)
    PROVE  Explains(book') /\ UNCHANGED spent
  <1> DEFINE m == task[c].of
  <1>0. UNCHANGED spent
    BY DEF Complete, Fail, Cancel, Hold, Return, bounds
  <1>1. /\ task[c].step \in TransactionSteps
        /\ m \in Movements /\ (m \in Withdrawals => m \in linked)
        /\ task[c].step \in {"return", "returning"} => m \in Deposits
    <2>1. task[c].step \in TransactionSteps
      BY DEF Complete, Fail, Cancel, Hold, Return, At, TransactionSteps
    <2>2. QED BY <2>1, TransactionOf
  <1>2. /\ Sound(book) /\ LedgerSound(book) /\ linked \subseteq Withdrawals
        /\ Consumes(book) /\ \A w \in Withdrawals : Reserving(w)
        /\ book \in Book
    BY DEF MoneyInv, LedgerInv, TypeOK, Consumes, Sound
  <1>3. CASE UNCHANGED book
    BY <1>0, <1>2, <1>3 DEF Explains, Kept, Written
  <1>4. CASE Complete(c)
    <2>1. CASE book' = Settled(m) /\ (m \in linked => Endable(book, m, "CONSUMED"))
      <3>1. Kept(Settled(m), book) /\ LedgerSound(Settled(m)) /\ Written(Settled(m), book)
        BY <1>1, <1>2, <2>1, SettledKept
      <3>2. \A w \in Withdrawals \ {m} : Settled(m).reservation[w] = book.reservation[w]
        BY <1>1, <1>2, SettledSound
      <3> HIDE DEF m
      <3>3. QED BY <1>0, <1>1, <1>2, <2>1, <3>1, <3>2 DEF Explains, Consumes
    <2>2. QED BY <1>3, <1>4, <2>1 DEF Complete
  <1>5. CASE Fail(c) \/ Cancel(c)
    <2>1. CASE book' = GivenBack(m) /\ (m \in linked => Endable(book, m, "RELEASED"))
      <3>1. CASE m \in linked
        <4>1. book' = Released(book, m) /\ m \in Withdrawals
          BY <1>2, <2>1, <3>1 DEF GivenBack
        <4>2. /\ Kept(Released(book, m), book)
              /\ LedgerSound(Released(book, m)) /\ Written(Released(book, m), book)
          BY <1>2, <2>1, <3>1, <4>1, ReleasedKept
        <4>3. \A w \in Withdrawals \ {m} : book'.reservation[w] = book.reservation[w]
          BY <1>1, <1>2, <2>1, GivenBackSound
        <4> HIDE DEF m
        <4>4. QED BY <1>0, <1>2, <3>1, <4>1, <4>2, <4>3 DEF Explains, Consumes
      <3>2. QED BY <1>3, <2>1, <3>1 DEF GivenBack
    <2>2. QED BY <1>3, <1>5, <2>1 DEF Fail, Cancel, Closes
  <1>6. CASE Hold(c)
    <2>1. CASE book' = [book EXCEPT !.held = @ \cup {m}]
      <3>1. /\ book'.cash = book.cash /\ book'.reserved = book.reserved
            /\ book'.journal = book.journal /\ book'.reservation = book.reservation
            /\ book'.deficits = book.deficits /\ book'.restrictions = book.restrictions
        BY <1>2, <2>1 DEF Book
      <3>2. QED BY <1>0, <1>2, <3>1
                DEF Explains, Kept, Written, Consumes, LedgerSound, Unexplained, Loose,
                    NotShort, Available, DeficitsReversed
    <2>2. QED BY <1>3, <1>6, <2>1 DEF Hold, Review
  <1>7. CASE Return(c)
    <2>1. m \in Deposits /\ book.journal[m] # "NONE"
      BY <1>1, <1>7 DEF Return, At, LedgerInv
    <2>2. CASE book' = Returned(m)
      <3>1. Kept(Returned(m), book) /\ LedgerSound(Returned(m)) /\ Written(Returned(m), book)
        BY <1>2, <2>1, ReturnedKept
      <3>2. \A w \in Withdrawals : Returned(m).reservation[w] = book.reservation[w]
        BY <1>2, <2>1, ReturnedSound
      <3> HIDE DEF m
      <3>3. QED BY <1>0, <1>2, <2>2, <3>1, <3>2 DEF Explains, Consumes
    <2>3. QED BY <1>3, <1>7, <2>2 DEF Return
  <1>8. QED BY <1>4, <1>5, <1>6, <1>7

\* A withdrawal's request reserves what is available, and gives back what it cannot link.
LEMMA RequestExplains ==
    ASSUME MoneyInv, LedgerInv, NEW w \in Withdrawals, Reserve(w) \/ Undo(w)
    PROVE  Explains(book') /\ UNCHANGED spent
  <1>0. UNCHANGED spent
    BY DEF Reserve, Undo, bounds
  <1>1. /\ Sound(book) /\ LedgerSound(book) /\ Consumes(book) /\ book \in Book
        /\ book.reservation \in [Withdrawals -> {"NONE", "ACTIVE", "RELEASED", "CONSUMED"}]
    BY DEF MoneyInv, LedgerInv, Consumes, Sound, Book
  <1>2. CASE UNCHANGED book
    BY <1>0, <1>1, <1>2 DEF Explains, Kept, Written
  <1>3. CASE Reserve(w) /\ ~UNCHANGED book
    <2> DEFINE new == Reserved(book, w)
    <2>1. book' = new /\ Reservable(book, w)
      BY <1>3 DEF Reserve
    <2>2. /\ Kept(new, book) /\ new.cash = book.cash
          /\ new.reserved = book.reserved + Amount[w]
          /\ new.restrictions = book.restrictions /\ new.deficits = book.deficits
      BY <1>1, <2>1, ReservedKept DEF Reservable
    <2>3. /\ new.journal = book.journal
          /\ new.reservation = [book.reservation EXCEPT ![w] = "ACTIVE"]
      BY <1>1, ReservedSound
    <2> HIDE DEF new
    <2>4. Amount[w] \in Nat /\ book.cash \in Int /\ book.reserved \in Int
      BY <1>1, AmountsMove, Kinds DEF Book
    <2>5. NotShort(new)
      BY <2>1, <2>2, <2>4 DEF NotShort, Available, Reservable
    <2>6. DeficitsReversed(new) /\ Written(new, book) /\ Loose(new) = 0
      BY <1>1, <2>2, <2>3 DEF DeficitsReversed, Written, LedgerSound, Kept
    <2>7. Consumes(new)
      BY <1>1, <2>3 DEF Consumes
    <2>8. QED BY <1>0, <2>1, <2>2, <2>5, <2>6, <2>7 DEF Explains, LedgerSound
  <1>4. CASE Undo(w) /\ ~UNCHANGED book
    <2>1. book' = Released(book, w) /\ book.reservation[w] # "NONE"
      BY <1>4 DEF Undo
    <2>2. w \notin linked
      BY <1>4, Kinds DEF Undo, At, MoneyInv, Working
    <2>3. book.reservation[w] # "CONSUMED"
      BY <1>1, <2>2 DEF Consumes
    <2>4. Endable(book, w, "RELEASED")
      BY <1>1, <2>1, <2>3 DEF Endable
    <2>5. /\ Kept(Released(book, w), book)
          /\ LedgerSound(Released(book, w)) /\ Written(Released(book, w), book)
      BY <1>1, <2>4, ReleasedKept
    <2>6. Released(book, w).reservation = [book.reservation EXCEPT ![w] = "RELEASED"]
      BY <1>1, EndedSound DEF Released
    <2>7. Consumes(Released(book, w))
      BY <1>1, <2>6 DEF Consumes
    <2>8. QED BY <1>0, <2>1, <2>5, <2>7 DEF Explains
  <1>5. QED BY <1>2, <1>3, <1>4

\* A purchase spends what is available.
LEMMA SpendExplains ==
    ASSUME MoneyInv, LedgerInv, NEW amount \in 1 .. MaxSpent, Spend(amount)
    PROVE  /\ Unexplained(book') = Unexplained(book) - amount /\ spent' = spent + amount
           /\ LedgerSound(book') /\ Written(book', book) /\ Consumes(book')
  <1>1. /\ LedgerSound(book) /\ Consumes(book) /\ book \in Book
        /\ book.cash \in Int /\ book.reserved \in Int
    BY DEF MoneyInv, LedgerInv, Consumes, Sound, Book
  <1>2. /\ book'.cash = book.cash - amount /\ book'.reserved = book.reserved
        /\ book'.journal = book.journal /\ book'.reservation = book.reservation
        /\ book'.deficits = book.deficits /\ book'.restrictions = book.restrictions
        /\ amount <= Available(book) /\ spent' = spent + amount
    BY <1>1 DEF Spend, Book
  <1>3. Counted(book.journal) \in Int /\ Owed(book.deficits) \in Int
    BY <1>1, SumsInt
  <1>4. amount \in Int
    BY MoneyMovementsAssumption
  <1>5. Unexplained(book') = Unexplained(book) - amount
    BY <1>1, <1>2, <1>3, <1>4 DEF Unexplained
  <1>6. NotShort(book')
    BY <1>1, <1>2, <1>4 DEF NotShort, Available
  <1>7. DeficitsReversed(book') /\ Written(book', book) /\ Loose(book') = 0 /\ Consumes(book')
    BY <1>1, <1>2 DEF DeficitsReversed, Written, LedgerSound, Loose, Consumes
  <1>8. QED BY <1>2, <1>5, <1>6, <1>7 DEF LedgerSound

\* Whoever is about to return a deposit has seen its journal, which stays written.
LEMMA ReturningKnows ==
    ASSUME MoneyInv, LedgerInv, Next, Written(book', book)
    PROVE  \A c \in Callers : task'[c].step = "returning" => book'.journal[task'[c].of] # "NONE"
  <1> SUFFICES ASSUME NEW c \in Callers, task'[c].step = "returning"
               PROVE  book'.journal[task'[c].of] # "NONE"
    OBVIOUS
  <1>1. TypeOK /\ task \in [Callers -> Task]
    BY DEF MoneyInv, TypeOK
  <1>2. /\ task'[c].of = task[c].of /\ book.journal[task[c].of] # "NONE"
        /\ task[c].step \in {"return", "returning"}
    <2>1. CASE task'[c] = task[c]
      BY <2>1 DEF LedgerInv
    <2>2. CASE ReturnCheck(c)
      <3>1. ~Ends(c)
        BY <1>1 DEF Ends, Idle
      <3>2. Go(c, "returning") /\ book.journal[task[c].of] # "NONE" /\ task[c].step = "return"
        BY <2>2, <3>1 DEF ReturnCheck, Check, At
      <3>3. task'[c].of = task[c].of
        BY <1>1, <3>2, TaskGone DEF Steps
      <3>4. QED BY <3>2, <3>3
    <2>3. QED BY <2>1, <2>2, LedgerSteps
  <1>3. task[c].of \in Movements
    BY <1>2, TransactionOf DEF TransactionSteps
  <1>4. QED BY <1>2, <1>3 DEF Written

\* The invariant is inductive.
LEMMA LedgerStep ==
    ASSUME MoneyInv, LedgerInv, [Next]_vars
    PROVE  LedgerInv'
  <1>1. CASE UNCHANGED vars
    <2>1. book' = book /\ spent' = spent /\ linked' = linked /\ task' = task
      BY <1>1 DEF vars, rows, bounds
    <2>2. LedgerSound(book)' /\ Unexplained(book)' = Unexplained(book)
      BY <2>1 DEF LedgerInv, LedgerSound, Unexplained, Loose, NotShort, Available,
                  DeficitsReversed
    <2>3. QED BY <2>1, <2>2 DEF LedgerInv
  <1>2. CASE Next
    <2>1. /\ linked \subseteq linked'
          /\ \/ UNCHANGED <<book, spent>>
             \/ \E c \in Callers : Complete(c) \/ Fail(c) \/ Cancel(c) \/ Hold(c) \/ Return(c)
             \/ \E w \in Withdrawals : Reserve(w) \/ Undo(w)
             \/ \E amount \in 1 .. MaxSpent : Spend(amount)
      BY <1>2, LedgerSteps
    <2>2. /\ book \in Book /\ spent \in Int /\ Opening \in Int
          /\ Unexplained(book) = Opening - spent
          /\ LedgerSound(book) /\ Consumes(book)
      BY CustomerCashAssumption DEF LedgerInv, MoneyInv, TypeOK, Consumes
    <2>3. /\ Unexplained(book') = Opening - spent'
          /\ LedgerSound(book') /\ Written(book', book) /\ Consumes(book')
      <3>1. CASE UNCHANGED <<book, spent>>
        BY <2>2, <3>1 DEF Written
      <3>2. CASE Explains(book') /\ UNCHANGED spent
        BY <2>2, <3>2 DEF Explains, Kept
      <3>3. CASE \E amount \in 1 .. MaxSpent : Spend(amount)
        <4>1. PICK amount \in 1 .. MaxSpent : Spend(amount)
          BY <3>3
        <4>2. amount \in Int
          OBVIOUS
        <4>3. /\ Unexplained(book') = Unexplained(book) - amount /\ spent' = spent + amount
              /\ LedgerSound(book') /\ Written(book', book) /\ Consumes(book')
          BY <4>1, SpendExplains
        <4>4. QED BY <2>2, <4>2, <4>3
      <3>4. QED BY <2>1, <3>1, <3>2, <3>3, TransactionExplains, RequestExplains
    <2>4. \A c \in Callers : task'[c].step = "returning" => book'.journal[task'[c].of] # "NONE"
      BY <1>2, <2>3, ReturningKnows
    <2>5. \A w \in Withdrawals : book'.reservation[w] = "CONSUMED" => w \in linked'
      BY <2>1, <2>3 DEF Consumes
    <2>6. LedgerSound(book)'
      BY <2>3 DEF LedgerSound, Loose, NotShort, Available, DeficitsReversed
    <2>7. Unexplained(book)' = Opening - spent'
      BY <2>3 DEF Unexplained
    <2>8. QED BY <2>4, <2>5, <2>6, <2>7 DEF LedgerInv
  <1>3. QED BY <1>1, <1>2

\* The opening book explains itself.
LEMMA LedgerInit == Init => LedgerInv
  <1> SUFFICES ASSUME Init PROVE LedgerInv
    OBVIOUS
  <1> DEFINE f == [m \in Movements |-> IF OpeningBook.journal[m] = "POSTED" THEN Effect(m) ELSE 0]
             g == [w \in Withdrawals |->
                      IF OpeningBook.reservation[w] = "ACTIVE" THEN Amount[w] ELSE 0]
  <1>1. book = OpeningBook /\ spent = 0
    BY DEF Init
  <1>2. Counted(OpeningBook.journal) = 0
    <2>1. \A m \in Movements : f[m] = 0
      BY DEF OpeningBook
    <2> HIDE DEF f
    <2>2. SumFunctionOnSet(f, Movements) = 0
      BY <2>1, MovementsFinite, SumZero
    <2>3. QED BY <2>2 DEF Counted, f
  <1>3. Promised(OpeningBook.reservation) = 0
    <2>1. \A w \in Withdrawals : g[w] = 0
      BY DEF OpeningBook
    <2> HIDE DEF g
    <2>2. SumFunctionOnSet(g, Withdrawals) = 0
      BY <2>1, MovementsFinite, SumZero
    <2>3. QED BY <2>2 DEF Promised, g
  <1>4. Owed(OpeningBook.deficits) = 0
    <2>1. DOMAIN OpeningBook.deficits = {}
      BY DEF OpeningBook
    <2>2. QED BY <2>1, SumEmpty DEF Owed
  <1>5. Opening \in Int /\ OpeningBook.cash = Opening /\ OpeningBook.reserved = 0
    BY CustomerCashAssumption DEF OpeningBook
  <1>6. Unexplained(book) = Opening - spent /\ Loose(book) = 0
    BY <1>1, <1>2, <1>3, <1>4, <1>5 DEF Unexplained, Loose
  <1>7. NotShort(book) /\ DeficitsReversed(book)
    BY <1>1, CustomerCashAssumption DEF NotShort, Available, DeficitsReversed, OpeningBook
  <1>8. /\ \A w \in Withdrawals : book.reservation[w] = "CONSUMED" => w \in linked
        /\ \A c \in Callers : task[c].step = "returning" => book.journal[task[c].of] # "NONE"
    BY <1>1 DEF Init, OpeningBook, Idle
  <1>9. QED BY <1>6, <1>7, <1>8 DEF LedgerInv, LedgerSound

\* Every transaction of the ledger leaves cash and reserved cash explained.
THEOREM LedgerInvariant == Spec => []LedgerInv
  <1>1. MoneyInv /\ LedgerInv /\ [Next]_vars => LedgerInv'
    BY LedgerStep
  <1>2. QED BY <1>1, LedgerInit, MoneyInvariant, PTL DEF Spec

\* A sum over some of a finite set is the sum of what they count and others do not.
LEMMA CountedSum ==
    ASSUME NEW b \in Book
    PROVE  /\ Counted(b.journal) =
                  SumFunctionOnSet([m \in Movements |-> Effect(m)],
                                   {m \in Movements : b.journal[m] = "POSTED"})
           /\ Promised(b.reservation) =
                  SumFunctionOnSet(Amount, {w \in Withdrawals : b.reservation[w] = "ACTIVE"})
           /\ Owed(b.deficits) =
                  SumFunction([i \in DOMAIN b.deficits |-> Outstanding(b.deficits[i])])
  <1>1. Counted(b.journal) =
            SumFunctionOnSet([m \in Movements |-> Effect(m)],
                             {m \in Movements : b.journal[m] = "POSTED"})
    <2> DEFINE f == [m \in Movements |-> Effect(m)]
               g == [m \in Movements |-> IF b.journal[m] = "POSTED" THEN Effect(m) ELSE 0]
               T == {m \in Movements : b.journal[m] = "POSTED"}
    <2>1. /\ \A m \in Movements : f[m] \in Int
          /\ \A m \in Movements : g[m] = IF m \in T THEN f[m] ELSE 0
      BY AmountsMove
    <2>2. T \in SUBSET Movements
      OBVIOUS
    <2> HIDE DEF f, g, T
    <2>3. SumFunctionOnSet(f, T) = SumFunctionOnSet(g, Movements)
      <3> DEFINE h == [x \in Movements |-> IF x \in T THEN f[x] ELSE 0]
      <3>1. \A x \in T : f[x] \in Int
        BY <2>1, <2>2
      <3>2. SumFunctionOnSet(f, T) = SumFunctionOnSet(h, Movements)
        BY <2>2, <3>1, MovementsFinite, SumMasked
      <3>3. \A x \in Movements : g[x] = h[x]
        BY <2>1
      <3> HIDE DEF h
      <3>4. SumFunctionOnSet(g, Movements) = SumFunctionOnSet(h, Movements)
        BY <3>3, MovementsFinite, SumSame
      <3>5. QED BY <3>2, <3>4
    <2>4. QED BY <2>3 DEF Counted, f, g, T
  <1>2. Promised(b.reservation) =
            SumFunctionOnSet(Amount, {w \in Withdrawals : b.reservation[w] = "ACTIVE"})
    <2> DEFINE g == [w \in Withdrawals |-> IF b.reservation[w] = "ACTIVE" THEN Amount[w] ELSE 0]
               T == {w \in Withdrawals : b.reservation[w] = "ACTIVE"}
    <2>1. /\ \A w \in Withdrawals : Amount[w] \in Int
          /\ \A w \in Withdrawals : g[w] = IF w \in T THEN Amount[w] ELSE 0
      BY Kinds, AmountsMove
    <2>2. T \in SUBSET Withdrawals
      OBVIOUS
    <2> HIDE DEF g, T
    <2>3. SumFunctionOnSet(Amount, T) = SumFunctionOnSet(g, Withdrawals)
      <3> DEFINE h == [x \in Withdrawals |-> IF x \in T THEN Amount[x] ELSE 0]
      <3>1. \A x \in T : Amount[x] \in Int
        BY <2>1, <2>2
      <3>2. SumFunctionOnSet(Amount, T) = SumFunctionOnSet(h, Withdrawals)
        BY <2>2, <3>1, MovementsFinite, SumMasked
      <3>3. \A x \in Withdrawals : g[x] = h[x]
        BY <2>1
      <3> HIDE DEF h
      <3>4. SumFunctionOnSet(g, Withdrawals) = SumFunctionOnSet(h, Withdrawals)
        BY <3>3, MovementsFinite, SumSame
      <3>5. QED BY <3>2, <3>4
    <2>4. QED BY <2>3 DEF Promised, g, T
  <1>3. QED BY <1>1, <1>2 DEF Owed, SumFunction

\* The customer's cash is the opening balance with every posted journal, less what was
\* spent, plus what open deficits stand for; what is reserved is what active
\* reservations are for.
THEOREM CashStaysExplained == Spec => []CashExplained
  <1>1. MoneyInv /\ LedgerInv => CashExplained
    <2> SUFFICES ASSUME MoneyInv, LedgerInv PROVE CashExplained
      OBVIOUS
    <2>1. book \in Book /\ spent \in Int /\ Opening \in Int
      BY CustomerCashAssumption DEF MoneyInv, TypeOK
    <2>2. /\ Counted(book.journal) \in Int /\ Owed(book.deficits) \in Int
          /\ Promised(book.reservation) \in Int
          /\ book.cash \in Int /\ book.reserved \in Int
      BY <2>1, SumsInt
    <2>3. /\ book.cash - Counted(book.journal) - Owed(book.deficits) = Opening - spent
          /\ book.reserved - Promised(book.reservation) = 0
      BY DEF LedgerInv, LedgerSound, Unexplained, Loose
    <2>4. /\ book.cash = Opening + Counted(book.journal) - spent + Owed(book.deficits)
          /\ book.reserved = Promised(book.reservation)
      BY <2>1, <2>2, <2>3
    <2>5. QED BY <2>1, <2>4, CountedSum DEF CashExplained
  <1>2. QED BY <1>1, MoneyInvariant, LedgerInvariant, PTL

\* Cash never falls short of what is reserved without the account being held for a
\* review of the reservations.
THEOREM ShortagesUnderReview == Spec => []OverdrawnUnderReview
  <1>1. LedgerInv => OverdrawnUnderReview
    BY DEF LedgerInv, LedgerSound, NotShort, OverdrawnUnderReview
  <1>2. QED BY <1>1, LedgerInvariant, PTL

----------------------------------------------------------------------------
(* The ledger moves only as the customer's statement may. *)

\* No deficit is repaid beyond its amount.
Repayable(b) == \A i \in DOMAIN b.deficits : b.deficits[i].recovered <= b.deficits[i].amount

\* A withdrawal that is entered has used up its reservation.
PaidFromClaim(b) ==
    \A w \in Withdrawals : b.journal[w] = "POSTED" => b.reservation[w] = "CONSUMED"

StatementInv == Repayable(book) /\ PaidFromClaim(book)

\* What deficits stand for is never negative, and nothing only when none is open.
LEMMA DebtCounted ==
    ASSUME NEW b \in Book, Repayable(b)
    PROVE  /\ Owed(b.deficits) \in Nat
           /\ Owed(b.deficits) = 0 <=> OpenDeficits(b) = {}
  <1> DEFINE f == [i \in DOMAIN b.deficits |-> Outstanding(b.deficits[i])]
  <1>1. b.deficits \in Seq(Deficit)
    BY DEF Book
  <1>2. DOMAIN b.deficits = 1 .. Len(b.deficits) /\ Len(b.deficits) \in Nat
    BY <1>1
  <1>3. \A i \in DOMAIN b.deficits : Outstanding(b.deficits[i]) \in Nat
    <2> SUFFICES ASSUME NEW i \in DOMAIN b.deficits PROVE Outstanding(b.deficits[i]) \in Nat
      OBVIOUS
    <2>1. b.deficits[i] \in Deficit /\ b.deficits[i].recovered <= b.deficits[i].amount
      BY <1>1 DEF Repayable
    <2>2. QED BY <2>1 DEF Outstanding, Deficit
  <1>4. \A i \in DOMAIN b.deficits : f[i] = Outstanding(b.deficits[i])
    OBVIOUS
  <1> HIDE DEF f
  <1>5. IsFiniteSet(DOMAIN b.deficits)
    BY <1>2, IntervalFinite
  <1>6. /\ SumFunctionOnSet(f, DOMAIN b.deficits) \in Nat
        /\ \A i \in DOMAIN b.deficits : f[i] <= SumFunctionOnSet(f, DOMAIN b.deficits)
    BY <1>3, <1>4, <1>5, SumNat
  <1>7. ASSUME OpenDeficits(b) = {}
        PROVE  SumFunctionOnSet(f, DOMAIN b.deficits) = 0
    <2>1. \A i \in DOMAIN b.deficits : f[i] = 0
      BY <1>3, <1>4, <1>7 DEF OpenDeficits
    <2>2. QED BY <1>5, <2>1, SumZero
  <1>8. ASSUME NEW i \in OpenDeficits(b)
        PROVE  SumFunctionOnSet(f, DOMAIN b.deficits) # 0
    <2>1. i \in DOMAIN b.deficits /\ Outstanding(b.deficits[i]) > 0
      BY DEF OpenDeficits
    <2>2. QED BY <1>3, <1>4, <1>6, <2>1
  <1>9. Owed(b.deficits) = SumFunctionOnSet(f, DOMAIN b.deficits)
    BY DEF Owed, f
  <1>10. QED BY <1>6, <1>7, <1>8, <1>9

\* Reserved cash is not negative.
LEMMA ReservedNat ==
    ASSUME NEW b \in Book, Loose(b) = 0
    PROVE  b.reserved \in Nat
  <1> DEFINE f == [w \in Withdrawals |-> IF b.reservation[w] = "ACTIVE" THEN Amount[w] ELSE 0]
  <1>1. \A w \in Withdrawals : f[w] \in Nat
    BY Kinds, AmountsMove
  <1> HIDE DEF f
  <1>2. SumFunctionOnSet(f, Withdrawals) \in Nat
    BY <1>1, MovementsFinite, SumNat
  <1>3. Promised(b.reservation) \in Nat
    BY <1>2 DEF Promised, f
  <1>4. b.reserved \in Int
    BY DEF Book
  <1>5. QED BY <1>3, <1>4 DEF Loose

\* A recovery repays some of what is available, unless nothing is owed or available.
LEMMA RecoveredRepays ==
    ASSUME NEW b, Sound(b), NotShort(b), Repayable(b)
    PROVE  /\ Repayable(Recovered(b)) /\ SameMovements(Recovered(b), b)
           /\ \/ Recovered(b) = b /\ (OpenDeficits(b) = {} \/ Available(b) <= 0)
              \/ \E n \in Nat \ {0} :
                    /\ n <= Available(b)
                    /\ Recovered(b).cash = b.cash - n
                    /\ Owed(Recovered(b).deficits) = Owed(b.deficits) - n
  <1>0. SameMovements(Recovered(b), b)
    BY RecoveredSound
  <1>1. CASE OpenDeficits(b) = {} \/ Available(b) <= 0
    BY <1>0, <1>1 DEF Recovered
  <1>2. CASE ~(OpenDeficits(b) = {} \/ Available(b) <= 0)
    <2> DEFINE i == CHOOSE i \in OpenDeficits(b) : \A j \in OpenDeficits(b) : i <= j
               deficit == b.deficits[i]
               amount == Lesser(Available(b), Outstanding(deficit))
               less == [deficit EXCEPT !.recovered = @ + amount]
               deficits == [b.deficits EXCEPT ![i] = less]
               repaid == [b EXCEPT !.cash = b.cash - amount, !.deficits = deficits]
    <2>1. b \in Book /\ b.deficits \in Seq(Deficit) /\ b.cash \in Int /\ b.reserved \in Int
      BY DEF Sound, Book
    <2>2. i \in OpenDeficits(b)
      BY <1>2, <2>1, OldestDeficit
    <2>3. Recovered(b) = Lifted(repaid)
      BY <1>2 DEF Recovered
    <2> HIDE DEF i
    <2>4. i \in DOMAIN b.deficits /\ deficit \in Deficit /\ Outstanding(deficit) > 0
      BY <2>1, <2>2 DEF OpenDeficits
    <2> HIDE DEF deficit
    <2>5. /\ amount \in Nat \ {0} /\ amount <= Available(b) /\ amount <= Outstanding(deficit)
          /\ Outstanding(deficit) \in Int
      <3>1. Outstanding(deficit) \in Nat \ {0}
        BY <2>4 DEF Outstanding, Deficit
      <3>2. Available(b) \in Nat \ {0}
        BY <1>2, <2>1, <2>2 DEF Available
      <3>3. QED BY <3>1, <3>2 DEF Lesser
    <2> HIDE DEF amount
    <2>6. less.recovered <= less.amount
      BY <2>4, <2>5 DEF Deficit, Outstanding
    <2> HIDE DEF less
    <2>7. /\ DOMAIN deficits = DOMAIN b.deficits /\ deficits[i] = less
          /\ \A j \in DOMAIN b.deficits : j # i => deficits[j] = b.deficits[j]
      BY <2>1, <2>4
    <2> HIDE DEF deficits
    <2>8. /\ repaid.cash = b.cash - amount /\ repaid.deficits = deficits
          /\ \A field \in {"cash", "deficits"} : Lifted(repaid)[field] = repaid[field]
      BY <2>1 DEF Book, Lifted
    <2> HIDE DEF repaid
    <2>9. /\ Recovered(b).cash = b.cash - amount
          /\ Recovered(b).deficits = deficits
      BY <2>3, <2>8
    <2>10. Repayable(Recovered(b))
      BY <2>6, <2>7, <2>9 DEF Repayable
    <2>11. Kept(Recovered(b), b) /\ Recovered(b) \in Book
      BY RecoveredKept, RecoveredSound DEF Sound
    <2>12. /\ Counted(b.journal) \in Int /\ Owed(b.deficits) \in Int
           /\ Owed(Recovered(b).deficits) \in Int /\ b.cash \in Int
      BY <2>1, <2>11, SumsInt
    <2>13. Recovered(b).cash - Counted(b.journal) - Owed(Recovered(b).deficits)
              = b.cash - Counted(b.journal) - Owed(b.deficits)
      BY <1>0, <2>11 DEF Kept, Unexplained, SameMovements
    <2>14. Owed(Recovered(b).deficits) = Owed(b.deficits) - amount
      BY <2>5, <2>9, <2>12, <2>13
    <2>15. QED BY <1>0, <2>5, <2>9, <2>10, <2>14
  <1>3. QED BY <1>1, <1>2

\* A new deficit is repaid by nothing yet.
LEMMA RecordedRepayable ==
    ASSUME NEW b, Sound(b), NEW d \in Deposits, b.cash < 0, Repayable(b)
    PROVE  Repayable(DeficitRecorded(b, d))
  <1> DEFINE deficit == [of |-> d, amount |-> -b.cash, recovered |-> 0]
             new == DeficitRecorded(b, d)
  <1>1. /\ b \in Book /\ b.cash \in Int /\ b.deficits \in Seq(Deficit)
    BY DEF Sound, Book
  <1>2. CASE \E i \in DOMAIN b.deficits : b.deficits[i].of = d
    BY <1>2 DEF DeficitRecorded
  <1>3. CASE ~ \E i \in DOMAIN b.deficits : b.deficits[i].of = d
    <2>1. deficit \in Deficit /\ deficit.recovered <= deficit.amount
      BY <1>1 DEF Deficit
    <2>2. new.deficits = Append(b.deficits, deficit)
      BY <1>1, <1>3 DEF DeficitRecorded, Book
    <2> HIDE DEF deficit, new
    <2>3. \A i \in DOMAIN new.deficits : \/ new.deficits[i] = deficit
                                         \/ i \in DOMAIN b.deficits /\ new.deficits[i] = b.deficits[i]
      BY <1>1, <2>1, <2>2
    <2>4. Repayable(new)
      BY <2>1, <2>3 DEF Repayable
    <2>5. QED BY <2>4 DEF new
  <1>4. QED BY <1>2, <1>3

\* The statement sums as the ledger does.
LEMMA StatementSums ==
    ASSUME NEW f, NEW S
    PROVE  Statement!SumFunctionOnSet(f, S) = SumFunctionOnSet(f, S)
  BY DEF SumFunctionOnSet, FoldFunctionOnSet, MapThenFoldSet,
         Statement!SumFunctionOnSet, Statement!FoldFunctionOnSet, Statement!MapThenFoldSet

\* What the statement shows of the book.
LEMMA StatementShows ==
    ASSUME MoneyInv, LedgerInv
    PROVE  /\ Statement!Claimed = book.reserved /\ book.reserved \in Nat
           /\ SumFunction([i \in DOMAIN book.deficits |-> Outstanding(book.deficits[i])])
                 = Owed(book.deficits)
  <1>1. book \in Book /\ Loose(book) = 0
    BY DEF MoneyInv, TypeOK, LedgerInv, LedgerSound
  <1>2. Statement!Claimed = Promised(book.reservation)
    <2>1. Promised(book.reservation)
             = SumFunctionOnSet(Amount, {w \in Withdrawals : book.reservation[w] = "ACTIVE"})
      BY <1>1, CountedSum
    <2>2. Statement!Claimed
             = SumFunctionOnSet(Amount, {w \in Withdrawals : book.reservation[w] = "ACTIVE"})
      BY StatementSums DEF Statement!Claimed
    <2>3. QED BY <2>1, <2>2
  <1>3. Promised(book.reservation) \in Int /\ book.reserved \in Nat
    BY <1>1, SumsInt, ReservedNat
  <1>4. QED BY <1>1, <1>2, <1>3 DEF Loose, Owed, SumFunction

\* A step of the statement, but for its restriction; or nothing that it shows.
StatementMoves ==
    \/ Statement!Repay \/ Statement!Spend
    \/ \E d \in Deposits : Statement!Credit(d) \/ Statement!Return(d)
    \/ \E w \in Withdrawals : Statement!Claim(w) \/ Statement!GiveBack(w) \/ Statement!PayOut(w)

Unseen ==
    /\ book'.cash = book.cash /\ book'.journal = book.journal
    /\ book'.reservation = book.reservation /\ book'.deficits = book.deficits

Stated == StatementMoves \/ Unseen

\* Releasing a reservation gives back a claim.
LEMMA ReleaseStated ==
    ASSUME MoneyInv, StatementInv, NEW w \in Withdrawals, Endable(book, w, "RELEASED"),
           book' = Released(book, w)
    PROVE  StatementInv' /\ Stated
  <1>1. CASE book.reservation[w] = "RELEASED"
    <2>1. book' = book
      BY <1>1 DEF Released, Ended
    <2>2. QED BY <2>1 DEF Stated, Unseen, StatementInv, Repayable, PaidFromClaim
  <1>2. CASE book.reservation[w] = "ACTIVE"
    <2>1. Sound(book) /\ book \in Book
      BY DEF MoneyInv, Sound
    <2>2. /\ book'.journal = book.journal /\ book'.cash = book.cash
          /\ book'.reservation = [book.reservation EXCEPT ![w] = "RELEASED"]
          /\ book'.deficits = book.deficits
      BY <2>1, EndedSound, EndedKept DEF Released
    <2>3. book.reservation \in [Withdrawals -> {"NONE", "ACTIVE", "RELEASED", "CONSUMED"}]
      BY <2>1 DEF Book
    <2>4. PaidFromClaim(book)'
      BY <1>2, <2>2, <2>3 DEF StatementInv, PaidFromClaim
    <2>5. StatementInv'
      BY <2>2, <2>4 DEF StatementInv, Repayable
    <2>6. Statement!GiveBack(w)
      BY <1>2, <2>2 DEF Statement!GiveBack, Statement!ClaimMoves
    <2>7. QED BY <2>5, <2>6 DEF Stated, StatementMoves
  <1>3. QED BY <1>1, <1>2 DEF Endable

\* Closing a movement gives back its claim.
LEMMA CloseStated ==
    ASSUME MoneyInv, LedgerInv, StatementInv, NEW c \in Callers, Fail(c) \/ Cancel(c)
    PROVE  StatementInv' /\ Stated
  <1> DEFINE m == task[c].of
  <1>1. \/ m \in linked /\ Endable(book, m, "RELEASED") /\ book' = Released(book, m)
        \/ book' = book
    BY DEF Fail, Cancel, Closes, GivenBack
  <1>2. linked \subseteq Withdrawals
    BY DEF MoneyInv, TypeOK
  <1>3. CASE book' = book
    BY <1>3 DEF Stated, Unseen, StatementInv, Repayable, PaidFromClaim
  <1>4. CASE ~(book' = book)
    BY <1>1, <1>2, <1>4, ReleaseStated
  <1>5. QED BY <1>3, <1>4

\* A settled deposit is credited, to the debt first.
LEMMA CreditStated ==
    ASSUME MoneyInv, LedgerInv, StatementInv, NEW d \in Deposits, book' = Settled(d)
    PROVE  StatementInv' /\ Stated
  <1> DEFINE posted == Posted(book, d)
             new == Recovered(posted)
  <1>1. d \in Movements /\ d \notin Withdrawals /\ Amount[d] \in Nat \ {0} /\ Effect(d) = Amount[d]
    BY Kinds, AmountsMove DEF Effect
  <1>2. /\ Sound(book) /\ NotShort(book) /\ Repayable(book) /\ PaidFromClaim(book)
        /\ book.cash \in Int /\ book.reserved \in Int
        /\ book.journal \in [Movements -> {"NONE", "POSTED", "REVERSED"}]
    BY DEF MoneyInv, LedgerInv, LedgerSound, StatementInv, Sound, Book
  <1>3. /\ Sound(posted) /\ posted.reservation = book.reservation
        /\ posted.journal = IF book.journal[d] # "NONE" THEN book.journal
                            ELSE [book.journal EXCEPT ![d] = "POSTED"]
        /\ posted.cash = book.cash + (IF book.journal[d] = "NONE" THEN Amount[d] ELSE 0)
        /\ posted.reserved = book.reserved
        /\ posted.restrictions = book.restrictions
        /\ posted.deficits = book.deficits
    BY <1>1, <1>2, PostedSound, PostedKept
  <1>4. book' = new
    BY <1>1 DEF Settled
  <1> HIDE DEF posted
  <1>5. NotShort(posted) /\ Repayable(posted)
    BY <1>1, <1>2, <1>3 DEF NotShort, Available, Repayable
  <1>6. /\ Repayable(new) /\ SameMovements(new, posted)
        /\ \/ new = posted /\ (OpenDeficits(posted) = {} \/ Available(posted) <= 0)
           \/ \E n \in Nat \ {0} :
                 /\ n <= Available(posted)
                 /\ new.cash = posted.cash - n
                 /\ Owed(new.deficits) = Owed(posted.deficits) - n
    BY <1>3, <1>5, RecoveredRepays
  <1>7. new \in Book
    BY <1>3, RecoveredSound DEF Sound
  <1> HIDE DEF new
  <1>8. StatementInv'
    <2>1. PaidFromClaim(book)'
      BY <1>1, <1>2, <1>3, <1>4, <1>6, Kinds DEF PaidFromClaim, SameMovements
    <2>2. QED BY <1>4, <1>6, <2>1 DEF StatementInv, Repayable
  <1>9. /\ Statement!Claimed = book.reserved
        /\ SumFunction([i \in DOMAIN book.deficits |-> Outstanding(book.deficits[i])])
              = Owed(book.deficits)
        /\ SumFunction([i \in DOMAIN book'.deficits |-> Outstanding(book'.deficits[i])])
              = Owed(book'.deficits)
    BY StatementShows DEF Owed, SumFunction
  <1>10. /\ Owed(book.deficits) \in Nat /\ Owed(book'.deficits) \in Nat
         /\ Owed(book.deficits) = 0 <=> OpenDeficits(book) = {}
         /\ OpenDeficits(posted) = OpenDeficits(book)
    <2>1. book \in Book /\ book' \in Book /\ Repayable(book')
      BY <1>2, <1>4, <1>6, <1>7 DEF Sound
    <2>2. QED BY <1>2, <1>3, <2>1, DebtCounted DEF OpenDeficits
  <1>11. book'.reservation = book.reservation /\ book'.journal = posted.journal
    BY <1>3, <1>4, <1>6 DEF SameMovements
  <1>12. ASSUME NEW n \in Nat,
                book'.cash = posted.cash - n, Owed(book'.deficits) = Owed(book.deficits) - n,
                n > 0 => n <= Available(posted),
                Owed(book.deficits) > 0 /\ Available(posted) > 0 => n > 0
         PROVE  Stated \/ (n = 0 /\ book.journal[d] # "NONE")
    <2>1. n \in 0 .. Owed(book.deficits)
      BY <1>10, <1>12
    <2>2. n > 0 => Statement!Claimed <= book'.cash
      BY <1>1, <1>2, <1>3, <1>9, <1>12 DEF Available
    <2>3. CASE book.journal[d] = "NONE"
      <3>1. /\ book'.journal = [book.journal EXCEPT ![d] = "POSTED"]
            /\ posted.cash = book.cash + Amount[d]
        BY <1>3, <1>11, <2>3
      <3>2. Owed(book.deficits) > 0 /\ book.cash + Amount[d] > Statement!Claimed => n > 0
        BY <1>1, <1>2, <1>3, <1>9, <1>12, <3>1 DEF Available
      <3>3. Statement!Credit(d)
        BY <1>9, <1>11, <1>12, <2>1, <2>2, <2>3, <3>1, <3>2
           DEF Statement!Credit, Statement!Enters, Statement!Repays
      <3>4. QED BY <3>3 DEF Stated, StatementMoves
    <2>4. CASE book.journal[d] # "NONE" /\ n # 0
      <3>1. book'.journal = book.journal /\ posted.cash = book.cash
        BY <1>2, <1>3, <1>11, <2>4
      <3>2. n \in 1 .. Owed(book.deficits)
        BY <2>1, <2>4
      <3>3. Statement!Repay
        BY <1>9, <1>11, <1>12, <2>2, <3>1, <3>2 DEF Statement!Repay, Statement!Repays
      <3>4. QED BY <3>3 DEF Stated, StatementMoves
    <2>5. QED BY <2>3, <2>4
  <1>13. CASE \E n \in Nat \ {0} : /\ n <= Available(posted)
                                   /\ new.cash = posted.cash - n
                                   /\ Owed(new.deficits) = Owed(posted.deficits) - n
    BY <1>3, <1>4, <1>8, <1>12, <1>13
  <1>14. CASE new = posted /\ (OpenDeficits(posted) = {} \/ Available(posted) <= 0)
    <2>1. posted.cash \in Int
      BY <1>1, <1>2, <1>3
    <2>2. Available(posted) \in Int
      BY <1>2, <1>3, <2>1 DEF Available
    <2>3. Stated \/ book.journal[d] # "NONE"
      BY <1>3, <1>4, <1>10, <1>12, <1>14, <2>1, <2>2
    <2>4. book.journal[d] # "NONE" => Unseen
      BY <1>2, <1>3, <1>4, <1>14 DEF Unseen
    <2>5. QED BY <1>8, <2>3, <2>4 DEF Stated
  <1>15. QED BY <1>6, <1>13, <1>14

\* A settled withdrawal is paid out of its own claim.
LEMMA PayOutStated ==
    ASSUME MoneyInv, LedgerInv, StatementInv, NEW w \in linked, Endable(book, w, "CONSUMED"),
           book' = Settled(w)
    PROVE  StatementInv' /\ Stated
  <1> DEFINE posted == Posted(book, w)
             new == Ended(posted, w, "CONSUMED")
  <1>1. /\ w \in Withdrawals /\ w \in Movements /\ w \notin Deposits
        /\ Amount[w] \in Nat \ {0} /\ Effect(w) = -Amount[w]
    BY Kinds, AmountsMove DEF MoneyInv, TypeOK, Effect
  <1>2. /\ Sound(book) /\ Repayable(book) /\ PaidFromClaim(book) /\ Reserving(w)
        /\ book.cash \in Int
        /\ book.journal \in [Movements -> {"NONE", "POSTED", "REVERSED"}]
        /\ book.reservation \in [Withdrawals -> {"NONE", "ACTIVE", "RELEASED", "CONSUMED"}]
    BY <1>1 DEF MoneyInv, StatementInv, Sound, Book
  <1>3. /\ Sound(posted) /\ posted.reservation = book.reservation
        /\ posted.journal = IF book.journal[w] # "NONE" THEN book.journal
                            ELSE [book.journal EXCEPT ![w] = "POSTED"]
        /\ posted.cash = book.cash + (IF book.journal[w] = "NONE" THEN Effect(w) ELSE 0)
        /\ posted.deficits = book.deficits
    BY <1>1, <1>2, PostedSound, PostedKept
  <1>4. book' = new
    BY <1>1 DEF Settled, Consumed
  <1>5. Endable(posted, w, "CONSUMED")
    BY <1>3 DEF Endable
  <1> HIDE DEF posted
  <1>6. /\ new.journal = posted.journal /\ new.cash = posted.cash
        /\ new.reservation = [book.reservation EXCEPT ![w] = "CONSUMED"]
        /\ new.deficits = book.deficits
    <2>1. /\ new.journal = posted.journal
          /\ new.reservation = [posted.reservation EXCEPT ![w] = "CONSUMED"]
      BY <1>1, <1>3, EndedSound
    <2>2. new.cash = posted.cash /\ new.deficits = posted.deficits
      BY <1>1, <1>3, <1>5, EndedKept
    <2> HIDE DEF new
    <2>3. QED BY <1>3, <2>1, <2>2
  <1> HIDE DEF new
  <1>7. StatementInv'
    <2>1. PaidFromClaim(book)'
      BY <1>1, <1>2, <1>3, <1>4, <1>6, Kinds DEF PaidFromClaim
    <2>2. QED BY <1>2, <1>4, <1>6, <2>1 DEF StatementInv, Repayable
  <1>8. CASE book.reservation[w] = "CONSUMED"
    <2>1. book.journal[w] = "POSTED"
      BY <1>2, <1>8 DEF Reserving
    <2>2. Unseen
      BY <1>2, <1>3, <1>4, <1>6, <1>8, <2>1 DEF Unseen
    <2>3. QED BY <1>7, <2>2 DEF Stated
  <1>9. CASE book.reservation[w] = "ACTIVE"
    <2>1. book.journal[w] = "NONE"
      BY <1>1, <1>2, <1>9 DEF Reserving, PaidFromClaim
    <2>2. /\ book'.journal = [book.journal EXCEPT ![w] = "POSTED"]
          /\ book'.cash = book.cash - Amount[w]
      BY <1>1, <1>2, <1>3, <1>4, <1>6, <2>1
    <2>3. Statement!PayOut(w)
      BY <1>4, <1>6, <1>9, <2>1, <2>2
         DEF Statement!PayOut, Statement!Enters, Statement!ClaimMoves
    <2>4. QED BY <1>1, <1>7, <2>3 DEF Stated, StatementMoves
  <1>10. QED BY <1>8, <1>9 DEF Endable

\* A return takes back what it finds; what it does not find is owed.
LEMMA ReturnStated ==
    ASSUME MoneyInv, LedgerInv, StatementInv, NEW d \in Deposits, book.journal[d] # "NONE",
           book' = Returned(d)
    PROVE  StatementInv' /\ Stated
  <1> DEFINE before == Protected(book)
             reversed == Reversed(before, d)
             recorded == DeficitRecorded(reversed, d)
  <1>1. d \in Movements /\ d \notin Withdrawals /\ Amount[d] \in Nat \ {0} /\ Effect(d) = Amount[d]
    BY Kinds, AmountsMove DEF Effect
  <1>2. /\ Sound(book) /\ Loose(book) = 0 /\ DeficitsReversed(book)
        /\ Repayable(book) /\ PaidFromClaim(book)
        /\ book.cash \in Int /\ book.reserved \in Nat /\ book.deficits \in Seq(Deficit)
        /\ book.journal \in [Movements -> {"NONE", "POSTED", "REVERSED"}]
    BY StatementShows DEF MoneyInv, LedgerInv, LedgerSound, StatementInv, Sound, Book
  <1>3. /\ Sound(before) /\ before.journal = book.journal /\ before.reservation = book.reservation
        /\ before.cash = book.cash /\ before.reserved = book.reserved
        /\ before.deficits = book.deficits
    BY <1>2, ProtectedSound, ProtectedKept DEF SameMovements
  <1>4. /\ Sound(reversed) /\ reversed.reservation = book.reservation
        /\ reversed.journal = [book.journal EXCEPT ![d] = "REVERSED"]
        /\ reversed.cash = book.cash - (IF book.journal[d] = "REVERSED" THEN 0 ELSE Amount[d])
        /\ reversed.reserved = book.reserved /\ reversed.deficits = book.deficits
    <2> HIDE DEF before
    <2>1. /\ Sound(reversed) /\ reversed.reservation = before.reservation
          /\ reversed.journal = [before.journal EXCEPT ![d] = "REVERSED"]
      BY <1>1, <1>3, ReversedSound
    <2>2. /\ reversed.cash
                = before.cash - (IF before.journal[d] = "REVERSED" THEN 0 ELSE Effect(d))
          /\ reversed.reserved = before.reserved /\ reversed.deficits = before.deficits
      BY <1>1, <1>3, ReversedKept
    <2> HIDE DEF reversed
    <2>3. QED BY <1>1, <1>3, <2>1, <2>2
  <1>5. book' = IF reversed.cash < 0 THEN Recovered(recorded) ELSE reversed
    BY DEF Returned
  <1> HIDE DEF before, reversed
  <1>6. reversed.cash \in Int /\ reversed \in Book /\ Repayable(reversed)
    BY <1>2, <1>4 DEF Sound, Book, Repayable
  <1>7. ASSUME reversed.cash < 0
        PROVE  /\ book' = recorded
               /\ Sound(recorded) /\ SameMovements(recorded, reversed) /\ Repayable(recorded)
               /\ \/ (\E i \in DOMAIN book.deficits : book.deficits[i].of = d) /\ recorded = reversed
                  \/ /\ recorded.cash = 0
                     /\ Owed(recorded.deficits) = Owed(book.deficits) - reversed.cash
    <2>1. /\ Sound(recorded) /\ SameMovements(recorded, reversed)
          /\ Kept(recorded, reversed) /\ recorded.reserved = book.reserved
          /\ \/ (\E i \in DOMAIN book.deficits : book.deficits[i].of = d) /\ recorded = reversed
             \/ recorded.cash = 0
          /\ Repayable(recorded)
      BY <1>4, <1>6, <1>7, DeficitRecordedSound, RecordedKept, RecordedRepayable
    <2> HIDE DEF recorded
    <2>2. Available(recorded) <= 0
      BY <1>2, <1>4, <1>6, <1>7, <2>1 DEF Available
    <2>3. Recovered(recorded) = recorded
      BY <2>2 DEF Recovered
    <2>4. CASE recorded.cash = 0
      <3>1. /\ Counted(reversed.journal) \in Int /\ Owed(book.deficits) \in Int
            /\ Owed(recorded.deficits) \in Int
        BY <1>4, <1>6, <2>1, SumsInt DEF Sound
      <3>2. recorded.cash - Counted(reversed.journal) - Owed(recorded.deficits)
               = reversed.cash - Counted(reversed.journal) - Owed(book.deficits)
        BY <1>4, <2>1 DEF Kept, Unexplained, SameMovements
      <3>3. Owed(recorded.deficits) = Owed(book.deficits) - reversed.cash
        BY <1>6, <2>4, <3>1, <3>2
      <3>4. QED BY <1>5, <1>7, <2>1, <2>3, <2>4, <3>3
    <2>5. QED BY <1>5, <1>7, <2>1, <2>3, <2>4
  <1> HIDE DEF recorded
  <1>8. /\ book'.journal = [book.journal EXCEPT ![d] = "REVERSED"]
        /\ book'.reservation = book.reservation /\ Repayable(book')
    BY <1>4, <1>5, <1>6, <1>7 DEF SameMovements
  <1>9. StatementInv'
    <2>1. PaidFromClaim(book)'
      BY <1>1, <1>2, <1>8, Kinds DEF PaidFromClaim
    <2>2. QED BY <1>8, <2>1 DEF StatementInv, Repayable
  <1>10. CASE /\ reversed.cash < 0
              /\ \E i \in DOMAIN book.deficits : book.deficits[i].of = d
              /\ recorded = reversed
    <2>1. book.journal[d] = "REVERSED"
      BY <1>2, <1>10 DEF DeficitsReversed
    <2>2. book' = reversed /\ reversed.cash = book.cash
      BY <1>2, <1>4, <1>7, <1>10, <2>1
    <2>3. book'.journal = book.journal
      BY <1>2, <1>8, <2>1
    <2>4. Unseen
      BY <1>4, <1>8, <2>2, <2>3 DEF Unseen
    <2>5. QED BY <1>9, <2>4 DEF Stated
  <1>11. CASE \/ /\ reversed.cash < 0 /\ book'.cash = 0
                 /\ Owed(book'.deficits) = Owed(book.deficits) - reversed.cash
              \/ /\ ~(reversed.cash < 0) /\ book'.cash = reversed.cash
                 /\ book'.deficits = book.deficits
    <2> DEFINE left == IF book.journal[d] = "POSTED" THEN book.cash - Amount[d] ELSE book.cash
    <2>1. left = reversed.cash
      BY <1>1, <1>2, <1>4
    <2> HIDE DEF left
    <2>2. /\ SumFunction([i \in DOMAIN book.deficits |-> Outstanding(book.deficits[i])])
               = Owed(book.deficits)
          /\ SumFunction([i \in DOMAIN book'.deficits |-> Outstanding(book'.deficits[i])])
               = Owed(book'.deficits)
      BY DEF Owed, SumFunction
    <2>3. IF left < 0
          THEN book'.cash = 0 /\ Owed(book'.deficits) = Owed(book.deficits) - left
          ELSE book'.cash = left /\ Owed(book'.deficits) = Owed(book.deficits)
      BY <1>11, <2>1
    <2>4. Statement!Return(d)
      BY <1>8, <2>2, <2>3 DEF Statement!Return, left
    <2>5. QED BY <1>9, <2>4 DEF Stated, StatementMoves
  <1>12. QED BY <1>4, <1>5, <1>7, <1>10, <1>11

\* What a request or a purchase does to the book is a step of the statement.
LEMMA RequestStated ==
    ASSUME MoneyInv, LedgerInv, StatementInv, NEW w \in Withdrawals, Reserve(w) \/ Undo(w)
    PROVE  StatementInv' /\ Stated
  <1>1. /\ Sound(book) /\ book \in Book /\ Repayable(book) /\ PaidFromClaim(book)
        /\ book.cash \in Int /\ book.reserved \in Nat
        /\ book.reservation \in [Withdrawals -> {"NONE", "ACTIVE", "RELEASED", "CONSUMED"}]
    BY StatementShows DEF MoneyInv, StatementInv, Sound, Book
  <1>2. CASE book' = book
    BY <1>2 DEF Stated, Unseen, StatementInv, Repayable, PaidFromClaim
  <1>3. CASE Reserve(w) /\ ~(book' = book)
    <2>1. book' = Reserved(book, w) /\ Reservable(book, w)
      BY <1>3 DEF Reserve
    <2>2. /\ book'.cash = book.cash /\ book'.deficits = book.deficits
          /\ book'.journal = book.journal
          /\ book'.reservation = [book.reservation EXCEPT ![w] = "ACTIVE"]
      BY <1>1, <2>1, ReservedKept, ReservedSound DEF Reservable
    <2>3. book.reservation[w] = "NONE" /\ book.reserved + Amount[w] <= book.cash
      <3>1. Amount[w] \in Nat
        BY AmountsMove, Kinds
      <3>2. QED BY <1>1, <2>1, <3>1 DEF Reservable, Available
    <2>4. PaidFromClaim(book)'
      BY <1>1, <2>2, <2>3 DEF PaidFromClaim
    <2>5. StatementInv'
      BY <1>1, <2>2, <2>4 DEF StatementInv, Repayable
    <2>6. Statement!Claim(w)
      BY <2>2, <2>3, StatementShows DEF Statement!Claim, Statement!ClaimMoves
    <2>7. QED BY <2>5, <2>6 DEF Stated, StatementMoves
  <1>4. CASE Undo(w) /\ ~(book' = book)
    <2>1. book' = Released(book, w) /\ book.reservation[w] # "NONE"
      BY <1>4 DEF Undo
    <2>2. book.reservation[w] # "CONSUMED"
      BY <1>4, Kinds DEF Undo, At, MoneyInv, Working, LedgerInv
    <2>3. Endable(book, w, "RELEASED")
      BY <1>1, <2>1, <2>2 DEF Endable
    <2>4. QED BY <2>1, <2>3, ReleaseStated
  <1>5. QED BY <1>2, <1>3, <1>4

\* A purchase spends free funds of a customer who owes nothing.
LEMMA SpendStated ==
    ASSUME MoneyInv, LedgerInv, StatementInv, NEW amount \in 1 .. MaxSpent, Spend(amount)
    PROVE  StatementInv' /\ Stated
  <1>1. /\ Sound(book) /\ book \in Book /\ Repayable(book) /\ PaidFromClaim(book)
        /\ book.cash \in Int /\ book.reserved \in Nat
        /\ amount \in Nat \ {0}
    BY StatementShows DEF MoneyInv, StatementInv, Sound, Book
  <1>2. /\ book'.cash = book.cash - amount
        /\ book'.journal = book.journal /\ book'.reservation = book.reservation
        /\ book'.deficits = book.deficits
        /\ amount <= Available(book) /\ book.restrictions = {}
    BY <1>1 DEF Spend, Book
  <1>3. Owed(book.deficits) = 0
    BY <1>1, <1>2, DebtCounted DEF Sound, DebtShown
  <1>4. StatementInv'
    BY <1>1, <1>2 DEF StatementInv, Repayable, PaidFromClaim
  <1>5. book'.cash < book.cash /\ book.reserved <= book'.cash
    BY <1>1, <1>2 DEF Available
  <1>6. SumFunction([i \in DOMAIN book.deficits |-> Outstanding(book.deficits[i])]) = 0
    BY <1>3, StatementShows
  <1>7. Statement!Spend
    BY <1>2, <1>5, <1>6, StatementShows DEF Statement!Spend
  <1>8. QED BY <1>4, <1>7 DEF Stated, StatementMoves

\* Every step is one of the statement's, or shows nothing, and keeps the invariant.
LEMMA StatementStep ==
    ASSUME MoneyInv, LedgerInv, StatementInv, [Next]_vars
    PROVE  StatementInv' /\ Stated
  <1>1. CASE UNCHANGED book
    BY <1>1 DEF Stated, Unseen, StatementInv, Repayable, PaidFromClaim
  <1>2. ASSUME NEW c \in Callers, Complete(c), ~(book' = book)
        PROVE  StatementInv' /\ Stated
    <2> DEFINE m == task[c].of
    <2>1. m \in Movements /\ (m \in Withdrawals => m \in linked)
      <3>1. task[c].step \in TransactionSteps
        BY <1>2 DEF Complete, At, TransactionSteps
      <3>2. QED BY <3>1, TransactionOf
    <2>2. /\ book' = Settled(m)
          /\ m \in linked => Endable(book, m, "CONSUMED")
      BY <1>2 DEF Complete
    <2> HIDE DEF m
    <2>3. QED BY <2>1, <2>2, CreditStated, PayOutStated, Kinds
  <1>3. ASSUME NEW c \in Callers, Hold(c)
        PROVE  StatementInv' /\ Stated
    <2>1. book \in Book
      BY DEF MoneyInv, TypeOK
    <2>2. Unseen
      BY <1>3, <2>1 DEF Hold, Review, Unseen, Book
    <2>3. QED BY <2>2 DEF Stated, Unseen, StatementInv, Repayable, PaidFromClaim
  <1>4. ASSUME NEW c \in Callers, Return(c), ~(book' = book)
        PROVE  StatementInv' /\ Stated
    <2> DEFINE m == task[c].of
    <2>1. m \in Deposits /\ book.journal[m] # "NONE"
      <3>1. task[c].step = "returning" /\ task[c].step \in TransactionSteps
        BY <1>4 DEF Return, At, TransactionSteps
      <3>2. QED BY <3>1, TransactionOf DEF LedgerInv
    <2>2. book' = Returned(m)
      BY <1>4 DEF Return
    <2> HIDE DEF m
    <2>3. QED BY <2>1, <2>2, ReturnStated
  <1>5. CASE Next /\ ~UNCHANGED book
    <2>1. \/ \E c \in Callers : Complete(c) \/ Fail(c) \/ Cancel(c) \/ Hold(c) \/ Return(c)
          \/ \E w \in Withdrawals : Reserve(w) \/ Undo(w)
          \/ \E amount \in 1 .. MaxSpent : Spend(amount)
      BY <1>5, LedgerSteps
    <2>2. QED BY <1>2, <1>3, <1>4, <1>5, <2>1, CloseStated, RequestStated, SpendStated
  <1>6. QED BY <1>1, <1>5 DEF vars

\* The opening book is the statement's.
LEMMA StatementInit == Init => StatementInv /\ Statement!Init
  <1> SUFFICES ASSUME Init PROVE StatementInv /\ Statement!Init
    OBVIOUS
  <1>1. book = OpeningBook
    BY DEF Init
  <1>2. /\ book.cash = Opening /\ book.deficits = << >> /\ book.restrictions = {}
        /\ book.journal = [m \in Movements |-> "NONE"]
        /\ book.reservation = [w \in Withdrawals |-> "NONE"]
    BY <1>1 DEF OpeningBook
  <1>3. StatementInv
    BY <1>2, Kinds DEF StatementInv, Repayable, PaidFromClaim
  <1>4. SumFunction([i \in DOMAIN book.deficits |-> Outstanding(book.deficits[i])]) = 0
    <2>1. DOMAIN book.deficits = {}
      BY <1>2
    <2>2. QED BY <2>1, SumEmpty DEF SumFunction
  <1>5. Statement!Init
    BY <1>2, <1>4, Kinds DEF Statement!Init
  <1>6. QED BY <1>3, <1>5

\* What stands behind the statement, in every reachable state.
LEMMA StatementInvariant == Spec => []StatementInv
  <1>1. MoneyInv /\ LedgerInv /\ StatementInv /\ [Next]_vars => StatementInv'
    BY StatementStep
  <1>2. QED BY <1>1, StatementInit, MoneyInvariant, LedgerInvariant, PTL DEF Spec

\* However requests, webhooks, reconciliations, recoveries and faults interleave, the
\* ledger does only what the customer's statement promises.
THEOREM LedgerImplementsStatement == Spec => ImplementsStatement
  <1>1. ASSUME MoneyInv, LedgerInv, StatementInv, [Next]_vars,
               MoneyInv', StatementInv'
        PROVE  [Statement!Next]_Statement!statementVars
    <2>1. /\ SumFunction([i \in DOMAIN book.deficits |-> Outstanding(book.deficits[i])])
               = Owed(book.deficits)
          /\ SumFunction([i \in DOMAIN book'.deficits |-> Outstanding(book'.deficits[i])])
               = Owed(book'.deficits)
      BY DEF Owed, SumFunction
    <2>2. /\ "RETURNED_FUNDS_DEFICIT" \in book.restrictions <=> Owed(book.deficits) > 0
          /\ "RETURNED_FUNDS_DEFICIT" \in book'.restrictions <=> Owed(book'.deficits) > 0
      <3>1. Sound(book) /\ Repayable(book) /\ Sound(book') /\ Repayable(book')
        BY <1>1 DEF MoneyInv, StatementInv, Sound, DebtShown, OpenDeficits, Repayable
      <3>2. /\ Owed(book.deficits) \in Nat /\ Owed(book'.deficits) \in Nat
            /\ Owed(book.deficits) = 0 <=> OpenDeficits(book) = {}
            /\ Owed(book'.deficits) = 0 <=> OpenDeficits(book') = {}
        BY <3>1, DebtCounted DEF Sound
      <3>3. QED BY <3>1, <3>2 DEF Sound, DebtShown
    <2>3. CASE Unseen
      BY <2>1, <2>2, <2>3 DEF Unseen, Statement!statementVars
    <2>4. CASE StatementMoves
      BY <2>1, <2>2, <2>4 DEF StatementMoves, Statement!Next
    <2>5. QED BY <1>1, <2>3, <2>4, StatementStep DEF Stated
  <1>2. MoneyInv /\ LedgerInv /\ StatementInv /\ [Next]_vars /\ MoneyInv' /\ StatementInv'
          => [Statement!Next]_Statement!statementVars
    BY <1>1
  <1>3. QED BY <1>2, StatementInit, MoneyInvariant, LedgerInvariant, StatementInvariant, PTL
            DEF Spec, ImplementsStatement, Statement!Spec
=============================================================================
