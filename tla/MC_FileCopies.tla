--------------------------- MODULE MC_FileCopies -----------------------------
EXTENDS FileCopies, TLC

CONSTANTS u1, u2

MCUsers  == {u1, u2}
MCCopies == {1, 2}

Jobs(a, b) == (u1 :> a) @@ (u2 :> b)

Base == [job |-> Jobs("read", "none"), arch |-> {}, archived |-> {1, 2},
         offline |-> TRUE, versions |-> 1, release |-> "none",
         nodrop |-> FALSE, relattr |-> FALSE, relafter |-> {}, norel |-> {},
         required |-> {1, 2}, inconsistent |-> FALSE, admin |-> {},
         composing |-> FALSE, age |-> "stage",
         left |-> [copies |-> 0, interrupts |-> 0, errors |-> 0, admin |-> 0]]

Bound(s, f, n) == [s EXCEPT !.left[f] = n]

\* Two readers, one of which may give up, over media that fail.
Staging == Bound(Bound([Base EXCEPT !.job = Jobs("read", "read"),
                                    !.release = "command"], "interrupts", 1), "errors", 2)

\* A reader, who may give up, and a thread that truncates and writes the file.
Truncating == Bound(Bound([Base EXCEPT !.job = Jobs("read", "trunc"), !.versions = 2,
                           !.arch = {1}, !.archived = {1}, !.required = {1},
                           !.release = "releaser", !.composing = TRUE], "copies", 2), "interrupts", 1)

\* Both copies are made while the file is written over and over, and the disk
\* copy is released when both are there, or after the second.
Archiving == {Bound([Base EXCEPT !.job = Jobs("trunc", "none"), !.versions = 3,
                     !.arch = {1, 2}, !.archived = {}, !.offline = FALSE,
                     !.release = "releaser", !.norel = a.norel,
                     !.relafter = a.relafter, !.inconsistent = a.incon], "copies", 3) :
                a \in {[norel |-> {1, 2}, relafter |-> {1, 2}, incon |-> FALSE],
                       [norel |-> {}, relafter |-> {2}, incon |-> TRUE]}}

\* A reader and a thread that writes the file in place; nothing releases it.
Writing == Bound([Base EXCEPT !.job = Jobs("read", "write"), !.versions = 3,
                  !.arch = {1, 2}, !.archived = {1}], "copies", 3)

\* A file is staged ahead of a read while its copies are changed by command.
Commands == Bound(Bound([Base EXCEPT !.job = Jobs("read", "stage"), !.arch = {1, 2},
                         !.release = "command", !.relattr = TRUE,
                         !.admin = {"unarchive", "exarchive", "damage", "damage -a",
                                    "undamage", "rearch", "unrearch"}],
                  "copies", 1), "admin", 2)

\* Two threads write over a file that is archived early or at once.
Early == {Bound([Base EXCEPT !.job = Jobs("trunc", "trunc"), !.versions = 3,
                 !.arch = {1}, !.archived = {}, !.offline = FALSE, !.required = {1},
                 !.release = "releaser", !.relafter = {1}, !.age = a], "copies", 2) :
            a \in {"none", "second"}}

MCPassing == {Staging, Truncating, Writing, Commands} \cup Archiving \cup Early

\* A file that is written in place may be released meanwhile.
MCReleased == {[Base EXCEPT !.job = Jobs("write", "none"), !.versions = 2,
                            !.release = "command"]}
=============================================================================
