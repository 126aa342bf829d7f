-------------------------------- MODULE MCFlash --------------------------------
EXTENDS BiosFlash

Mac == <<"own1", "own2">>
Board(kind, extd) == [kind |-> kind, extd |-> extd, onfly |-> FALSE, large |-> FALSE, bup |-> FALSE,
                      lock |-> IF extd THEN "locked" ELSE "unlocked", mac |-> Mac]
File(size) == [size |-> size, bios |-> TRUE, fits |-> TRUE, compat |-> TRUE, gbe |-> TRUE]
Foreign == [File("std") EXCEPT !.fits = FALSE]
Newer == [File("full") EXCEPT !.compat = FALSE]
Job(runs, password, file, board) == [runs |-> runs, password |-> password, file |-> file, board |-> board]

Small == Board("none", FALSE)
Gbe == Board("gbe", TRUE)
Guarded == [Small EXCEPT !.bup = TRUE]
Open1 == [Gbe EXCEPT !.lock = "unlocked"]

MCFlashScenes == {
    \* A small board: files of each kind, forced, guarded, and with its settings kept.
    Job(<<<<"file">>>>, FALSE, f, Small) : f \in {File("absent"), File("short"),
        [File("std") EXCEPT !.bios = FALSE], Foreign, File("full")}} \cup {
    Job(<<<<"file", "F">>, <<"file">>>>, FALSE, Foreign, Small),
    Job(<<<<"file", "C", "P", "D">>>>, FALSE, File("std"), Small),
    Job(<<<<"file", "C", "NOC", "E">>, <<"EL">>>>, FALSE, File("std"), [Small EXCEPT !.large = TRUE])} \cup {
    Job(<<<<"BP">>, <<"file", "BP">>>>, pw, File("std"), b) : pw \in BOOLEAN, b \in {Small, Guarded}} \cup {
    \* A locked flash of several parts: what is different beyond the BIOS, or not.
    Job(<<<<"file", "E">>, <<"file", "E">>>>, FALSE, f, Gbe) :
        f \in {Newer, File("full"), File("std")}} \cup {
    Job(<<<<"file">>>>, FALSE, f, Gbe) : f \in {Newer, File("std")}} \cup {
    Job(<<<<"file", "EF", "AOO">>, <<"file", "EF", "AOO">>>>, FALSE, File("full"), Gbe),
    Job(<<<<"file", "EFM", "AOO", "NAOO">>>>, FALSE, File("full"), [Gbe EXCEPT !.onfly = TRUE]),
    Job(<<<<"EU">>, <<"file", "EM", "AOO">>, <<"EIL">>>>, FALSE, Newer, [Gbe EXCEPT !.large = TRUE]),
    Job(<<<<"EUM">>, <<"EIL">>, <<"ELM">>>>, FALSE, Newer, Gbe),
    Job(<<<<"EL">>>>, FALSE, Newer, Gbe),
    Job(<<<<"file", "E">>, <<"file", "E">>, <<"file">>>>, FALSE, Newer, Open1)} \cup {
    \* Its network addresses, of each board.
    Job(<<<<"file", "E">>>>, FALSE, f, [Open1 EXCEPT !.mac = m]) :
        f \in {Newer, [Newer EXCEPT !.gbe = FALSE]}, m \in {Mac, <<"own1", "blank">>}} \cup {
    Job(<<a, a>>, FALSE, Newer, [Board("DSA", TRUE) EXCEPT !.lock = "unlocked"]) :
        a \in {<<"file", "E">>, <<"file", "E", "LAN">>}} \cup {
    Job(<<<<"file", "F">>>>, FALSE, File("std"), Board("EHL", FALSE))}
=============================================================================
