------------------------------ MODULE Handles ------------------------------
(***************************************************************************)
(* What libzelda64 promises a caller about ROMs and layouts: a call either *)
(* gives a handle and no error or changes nothing and says why, and a      *)
(* layout has as many entries as the ROM it was made from, which it needs  *)
(* open only to be written.  Memory and files do not appear.               *)
(***************************************************************************)
EXTENDS Integers

CONSTANTS
    Errors,                 \* the results other than OK
    RomSlots, LayoutSlots,  \* where the caller keeps its handles
    Counts,                 \* how many files a ROM may have
    Indexes,                \* the indexes zelda64_dmadata_entry is asked for
    LayoutIndexes           \* the indexes zelda64_layout_set_operation is given

VARIABLES
    open,     \* the number of files of each open ROM, or NotOpen
    layouts,  \* [of, count] for each layout, or NoLayout
    said      \* [call, error]: the last call that returned, and its error record

vars == <<open, layouts, said>>

NotOpen == 0
NoLayout == [of |-> "none", count |-> 0]
Gone == "closed"  \* in place of the slot of a ROM that has been closed
Says(c, e) == said' = [call |-> c, error |-> e]

Init ==
    /\ open = [r \in RomSlots |-> NotOpen]
    /\ layouts = [l \in LayoutSlots |-> NoLayout]
    /\ said = [call |-> <<"none">>, error |-> "OK"]

-----------------------------------------------------------------------------
(* A call that fails changes nothing. *)
Refuse(c) ==
    /\ \E e \in Errors : Says(c, e)
    /\ UNCHANGED <<open, layouts>>

Open(r) ==
    /\ open[r] = NotOpen
    /\ \/ /\ \E n \in Counts : open' = [open EXCEPT ![r] = n]
          /\ Says(<<"open", r>>, "OK")
          /\ UNCHANGED layouts
       \/ Refuse(<<"open", r>>)

(* Layouts outlive their ROM. *)
Close(r) ==
    /\ open[r] # NotOpen
    /\ open' = [open EXCEPT ![r] = NotOpen]
    /\ layouts' = [l \in LayoutSlots |->
                      IF layouts[l].of = r THEN [layouts[l] EXCEPT !.of = Gone] ELSE layouts[l]]
    /\ Says(<<"close", r>>, "OK")

Build(r, l) ==
    /\ open[r] # NotOpen
    /\ layouts[l] = NoLayout
    /\ \/ /\ layouts' = [layouts EXCEPT ![l] = [of |-> r, count |-> open[r]]]
          /\ Says(<<"layout", r, l>>, "OK")
          /\ UNCHANGED open
       \/ Refuse(<<"layout", r, l>>)

FreeLayout(l) ==
    /\ layouts[l] # NoLayout
    /\ layouts' = [layouts EXCEPT ![l] = NoLayout]
    /\ Says(<<"free", l>>, "OK")
    /\ UNCHANGED open

(* Entries are numbered from 0. *)
Reach(c, count, i) ==
    /\ Says(c, IF i < count THEN "OK" ELSE "OUT_OF_RANGE")
    /\ UNCHANGED <<open, layouts>>

Entry(r, i) == open[r] # NotOpen /\ Reach(<<"entry", r, i>>, open[r], i)
SetOperation(l, i) == layouts[l] # NoLayout /\ Reach(<<"set", l, i>>, layouts[l].count, i)

(* Writing a layout needs the ROM it was made from. *)
Write(l) ==
    /\ layouts[l].of \in RomSlots
    /\ open[layouts[l].of] # NotOpen
    /\ \/ Says(<<"write", l>>, "OK") /\ UNCHANGED <<open, layouts>>
       \/ Refuse(<<"write", l>>)

Next ==
    \/ \E r \in RomSlots :
          \/ Open(r) \/ Close(r)
          \/ \E l \in LayoutSlots : Build(r, l)
          \/ \E i \in Indexes : Entry(r, i)
    \/ \E l \in LayoutSlots :
          FreeLayout(l) \/ Write(l) \/ \E i \in LayoutIndexes : SetOperation(l, i)

Spec == Init /\ [][Next]_vars
=============================================================================
