--------------------------- MODULE SearchHistory ---------------------------
(***************************************************************************)
(* The recent and favourite searches of the documentation site             *)
(* (docs/js/docs.js).  They are kept in the browser's storage, which all   *)
(* tabs share; a dialog reads them when it opens, works on its own copies  *)
(* and writes a whole list back whenever it changes one.  The buttons of a *)
(* hit act at the end of a transition, once the dialog still shows it.     *)
(***************************************************************************)
EXTENDS Integers, Sequences

CONSTANTS
    HistoryTabs, Items,
    TakeTurns,      \* is no dialog opened while another tab's is open?
    FavoriteLimit,  \* the limits of the lists: 10, and 4 recent searches
    ShortLimit,     \* beside favourites or 7 without any
    LongLimit

ASSUME LimitsOK ==
    /\ TakeTurns \in BOOLEAN
    /\ FavoriteLimit \in Nat \ {0} /\ ShortLimit \in Nat \ {0}
    /\ LongLimit \in Nat /\ ShortLimit <= LongLimit

VARIABLES
    works,   \* can this browser store anything
    storage,  \* the lists in its storage
    open,    \* the tabs whose dialog is open
    fav, recent, limit,  \* the lists of a dialog and the limit of its recent ones
    armed    \* the buttons pressed whose transition has not ended

historyVars == <<works, storage, open, fav, recent, limit, armed>>

Lists   == {"favorite", "recent"}
Buttons == [list : Lists, item : Items, act : {"save", "remove"}]
Only(s) == {s[i] : i \in 1 .. Len(s)}

\* A button that was pressed belongs to a hit of its list.
HistoryTypeOK ==
    /\ works \in BOOLEAN
    /\ storage \in [Lists -> Seq(Items)]
    /\ open \subseteq HistoryTabs
    /\ fav \in [HistoryTabs -> Seq(Items)] /\ recent \in [HistoryTabs -> Seq(Items)]
    /\ limit \in [HistoryTabs -> {ShortLimit, LongLimit}]
    /\ armed \in [HistoryTabs -> SUBSET Buttons]
    /\ \A t \in HistoryTabs : \A b \in armed[t] :
           b.item \in Only(IF b.list = "favorite" THEN fav[t] ELSE recent[t])

HistoryInit ==
    /\ works \in BOOLEAN
    /\ storage = [l \in Lists |-> <<>>]
    /\ open = {}
    /\ fav = [t \in HistoryTabs |-> <<>>] /\ recent = [t \in HistoryTabs |-> <<>>]
    /\ limit = [t \in HistoryTabs |-> LongLimit]
    /\ armed = [t \in HistoryTabs |-> {}]

-----------------------------------------------------------------------------
(***************************************************************************)
(* A list.                                                                 *)
(***************************************************************************)
Slice(s, n) == SubSeq(s, 1, IF Len(s) < n THEN Len(s) ELSE n)

\* What is left of a list without an item, from its first element on.
Without(s, i) ==
    LET left[n \in 0 .. Len(s)] ==
            IF n = 0 THEN <<>>
            ELSE IF s[n] # i THEN Append(left[n - 1], s[n]) ELSE left[n - 1]
    IN left[Len(s)]

\* Faulty: a full list is cut one short.
AddShort(s, i, n) == Slice(<<i>> \o Without(s, i), n - 1)

\* add: the item moves or comes to the front; the last ones fall off.
Add(s, i, n) == Slice(<<i>> \o Without(s, i), n)

\* Faulty: the recent searches are not written back.
SaveFavorites(f, r) ==
    storage' = IF works THEN [storage EXCEPT !["favorite"] = f] ELSE storage

\* setItem: nothing where storage is refused.
Save(f, r) ==
    storage' = IF works THEN [favorite |-> f, recent |-> r] ELSE storage

\* The buttons of hits the dialog still shows.
StillShown(t, f, r) ==
    {b \in armed[t] : b.item \in Only(IF b.list = "favorite" THEN f ELSE r)}

-----------------------------------------------------------------------------
(***************************************************************************)
(* The dialog.                                                             *)
(***************************************************************************)
Open(t) ==
    LET f == Slice(storage["favorite"], FavoriteLimit)
        n == IF f = <<>> THEN LongLimit ELSE ShortLimit
    IN /\ t \notin open /\ (TakeTurns => open = {})
       /\ open' = open \cup {t}
       /\ fav' = [fav EXCEPT ![t] = f]
       /\ limit' = [limit EXCEPT ![t] = n]
       /\ recent' = [recent EXCEPT ![t] = Slice(storage["recent"], n)]
       /\ UNCHANGED <<works, storage, armed>>

Gone(t) ==
    /\ open' = open \ {t}
    /\ fav' = [fav EXCEPT ![t] = <<>>] /\ recent' = [recent EXCEPT ![t] = <<>>]
    /\ limit' = [limit EXCEPT ![t] = LongLimit]
    /\ armed' = [armed EXCEPT ![t] = {}]

Close(t) == t \in open /\ Gone(t) /\ UNCHANGED <<works, storage>>

\* A text in the input takes the lists off the screen, and their transitions.
Type(t) ==
    /\ t \in open /\ armed[t] # {}
    /\ armed' = [armed EXCEPT ![t] = {}]
    /\ UNCHANGED <<works, storage, open, fav, recent, limit>>

\* A hit that is a favourite does not become recent.
Remembers(t, i) == i \notin Only(fav[t])

\* A hit is selected; with a modifier key the dialog stays.
Select(t, i) ==
    LET r == Add(recent[t], i, limit[t])
    IN /\ t \in open
       /\ \/ Remembers(t, i) /\ Save(storage["favorite"], r)
          \/ ~Remembers(t, i) /\ UNCHANGED storage
       /\ \/ Gone(t)
          \/ /\ recent' = IF Remembers(t, i) THEN [recent EXCEPT ![t] = r] ELSE recent
             /\ armed' = [armed EXCEPT ![t] = StillShown(t, fav[t], recent'[t])]
             /\ UNCHANGED <<open, fav, limit>>
       /\ UNCHANGED works

\* A button of a hit; the last one pressed counts.
Press(t, b) ==
    /\ t \in open
    /\ b.item \in Only(IF b.list = "favorite" THEN fav[t] ELSE recent[t])
    /\ b.act = "save" => b.list = "recent"
    /\ armed' = [armed EXCEPT ![t] =
           {c \in @ : ~(c.list = b.list /\ c.item = b.item)} \cup {b}]
    /\ UNCHANGED <<works, storage, open, fav, recent, limit>>

\* The end of a transition; the lists are shown again.
TransitionEnd(t, b) ==
    LET f == IF b.act = "save" THEN Add(fav[t], b.item, FavoriteLimit)
             ELSE IF b.list = "favorite" THEN Without(fav[t], b.item) ELSE fav[t]
        r == IF b.list = "recent" THEN Without(recent[t], b.item) ELSE recent[t]
    IN /\ b \in armed[t]
       /\ fav' = [fav EXCEPT ![t] = f] /\ recent' = [recent EXCEPT ![t] = r]
       /\ Save(IF b.act = "save" \/ b.list = "favorite" THEN f ELSE storage["favorite"],
               IF b.list = "recent" THEN r ELSE storage["recent"])
       /\ armed' = [armed EXCEPT ![t] = StillShown(t, f, r)]
       /\ UNCHANGED <<works, open, limit>>

HistoryNext ==
    \E t \in HistoryTabs :
        \/ Open(t) \/ Close(t) \/ Type(t)
        \/ \E i \in Items : Select(t, i)
        \/ \E b \in Buttons : Press(t, b) \/ TransitionEnd(t, b)

HistorySpec == HistoryInit /\ [][HistoryNext]_historyVars

-----------------------------------------------------------------------------
(***************************************************************************)
(* Properties.                                                             *)
(***************************************************************************)
Distinct(s) == \A i, j \in 1 .. Len(s) : s[i] = s[j] => i = j

\* No list holds a search twice or more searches than it may, in a dialog or in
\* storage, and no dialog shows a search both as recent and as favourite.
ListsOK ==
    /\ \A t \in HistoryTabs :
           /\ Distinct(fav[t]) /\ Len(fav[t]) <= FavoriteLimit
           /\ Distinct(recent[t]) /\ Len(recent[t]) <= limit[t]
    /\ \A l \in Lists : Distinct(storage[l])
    /\ Len(storage["favorite"]) <= FavoriteLimit /\ Len(storage["recent"]) <= LongLimit
    /\ \A t \in HistoryTabs : Only(fav[t]) \cap Only(recent[t]) = {}

\* A search that was saved (docs.js:4411, "Save this search") stays saved until
\* its own button removes it, or the list is full, if tabs take turns: a dialog
\* that was open meanwhile would write its older copy over it.
SavedIsKept ==
    [][\A i \in Only(storage["favorite"]) :
           \/ i \in Only(storage'["favorite"])
           \/ Len(storage'["favorite"]) = FavoriteLimit
           \/ \E t \in HistoryTabs : [list |-> "favorite", item |-> i, act |-> "remove"] \in armed[t]]_historyVars

\* What a dialog shows is what the next one will show, in whatever tab, if the
\* tabs take turns.
ShownIsStored ==
    works => \A t \in open : /\ fav[t] = storage["favorite"]
                             /\ recent[t] = Slice(storage["recent"], limit[t])
=============================================================================
