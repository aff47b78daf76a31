------------------------------ MODULE CardLookup ------------------------------
(***************************************************************************)
(* get_snd_card_number and get_snd_card_name of alsa_recorder.cpp: the     *)
(* record thread looks for the sound card with a given name while cards    *)
(* come and go.  Asking a card fails when there is none of that number,    *)
(* also when it goes away between open and ioctl.                          *)
(***************************************************************************)
EXTENDS Integers

CONSTANTS
  MaxCards,  \* the numbers that are tried (32)
  Names,     \* the names of cards
  Wanted,    \* the name looked for ("all-i2s")
  NoCard     \* no card has this number

ASSUME LookupAssumption ==
  MaxCards \in Nat \ {0} /\ Wanted \in Names /\ NoCard \notin Names

Numbers == 0 .. MaxCards - 1
NotFound == -1

VARIABLES
  cards,      \* the card of each number
  searching,  \* whether get_snd_card_number is running
  i,          \* its loop variable
  number,     \* what it has returned
  kept,       \* the numbers whose card has not changed since it began
  seen        \* the numbers that have had the wanted card since then

lookupVars == <<cards, searching, i, number, kept, seen>>

HasWanted(c) == cards[c] = Wanted

LookupInit ==
  /\ cards \in [Numbers -> Names \union {NoCard}]
  /\ searching = FALSE /\ i = 0 /\ number = NotFound
  /\ kept = {} /\ seen = {}

\* A card is plugged in, removed or replaced.
CardChange ==
  \E c \in Numbers, name \in Names \union {NoCard} :
    /\ cards' = [cards EXCEPT ![c] = name]
    /\ name # cards[c]
    /\ kept' = kept \ {c}
    /\ seen' = IF searching /\ name = Wanted THEN seen \union {c} ELSE seen
    /\ UNCHANGED <<searching, i, number>>

Begin ==
  /\ ~searching
  /\ searching' = TRUE /\ i' = 0 /\ number' = NotFound
  /\ kept' = Numbers /\ seen' = {c \in Numbers : HasWanted(c)}
  /\ UNCHANGED cards

Return(n) == searching' = FALSE /\ number' = n /\ UNCHANGED <<cards, i, kept, seen>>

\* Mutant: the loop ends one card early.
LookEndsEarly ==
  /\ searching
  /\ IF i = MaxCards - 1 \/ cards[i] = NoCard THEN Return(NotFound)
     ELSE IF HasWanted(i) THEN Return(i)
     ELSE i' = i + 1 /\ UNCHANGED <<cards, searching, number, kept, seen>>

\* Mutant: the number is one more than that of the card asked.
LookOneMore ==
  /\ searching
  /\ IF i = MaxCards \/ cards[i] = NoCard THEN Return(NotFound)
     ELSE IF HasWanted(i) THEN Return(i + 1)
     ELSE i' = i + 1 /\ UNCHANGED <<cards, searching, number, kept, seen>>

\* One turn of the loop: the first number without a card ends it.
Look ==
  /\ searching
  /\ IF i = MaxCards \/ cards[i] = NoCard THEN Return(NotFound)
     ELSE IF HasWanted(i) THEN Return(i)
     ELSE i' = i + 1 /\ UNCHANGED <<cards, searching, number, kept, seen>>

LookupNext == CardChange \/ Begin \/ Look

LookupSpec == LookupInit /\ [][LookupNext]_lookupVars

-----------------------------------------------------------------------------
(* Properties.                                                             *)

LookupTypeOK ==
  /\ cards \in [Numbers -> Names \union {NoCard}]
  /\ searching \in BOOLEAN /\ i \in 0 .. MaxCards
  /\ number \in Numbers \union {NotFound}
  /\ kept \subseteq Numbers /\ seen \subseteq Numbers

\* The number that is returned has been the wanted card's during the search,
\* whatever cards came and went (alsa_recorder.cpp:236-241).
FoundWasThere == number # NotFound => number \in seen

\* A wanted card that stays, with cards that stay at all lower numbers, is
\* found or another is found before it, whatever happens at higher numbers
\* (alsa_recorder.cpp:235-245).
StayingCardFound ==
  ~searching =>
    \A c \in kept :
      HasWanted(c) /\ (\A d \in 0 .. c - 1 : d \in kept /\ cards[d] # NoCard)
        => number \in 0 .. c

=============================================================================
