------------------------------- MODULE UrlIndex -------------------------------
(***************************************************************************)
(* The URL index of the PyPI driver (drivers/pypi/driver.go:395-520): what *)
(* the /simple/ pages said of each file, and the choice of a wheel.  Pages *)
(* are sequences of links; HTML, names and versions are left out.          *)
(***************************************************************************)
EXTENDS Naturals, FiniteSetsExt, SequencesExt

CONSTANTS
    Packages,   \* normalized package names
    Files,      \* file names
    PackageOf,  \* PackageOf[f]: the package that the name of f begins with
    Tag,        \* Tag[f]: the tag of the wheel f, or "sdist"
    Unlisted    \* the address and digest of a file that no page named

ASSUME UrlAssumption == PackageOf \in [Files -> Packages] /\ Unlisted \notin Files

NoEntry == [url |-> Unlisted, sha |-> Unlisted]

(* driver.go:462-467                                                       *)
NewIndex == [entries |-> [f \in Files |-> NoEntry], byPkg |-> [p \in Packages |-> << >>]]

(* driver.go:469-478  the newest entry of a file replaces the older ones.  *)
(* The list of a package gets one element per page that names the file;    *)
(* only the first can be chosen (below), and only that one is kept here.   *)
IndexLink(idx, link) ==
    [entries |-> [idx.entries EXCEPT ![link.file] = [url |-> link.url, sha |-> link.sha]],
     byPkg |-> [idx.byPkg EXCEPT ![PackageOf[link.file]] =
                  IF Contains(@, link.file) THEN @ ELSE Append(@, link.file)]]

(* driver.go:395-415  one link after the other.                            *)
IndexPage(idx, page) ==
    LET read[n \in 0 .. Len(page)] ==
            IF n = 0 THEN idx ELSE IndexLink(read[n - 1], page[n])
    IN  read[Len(page)]

(* driver.go:507-519                                                       *)
WheelScore(f) ==
    CASE Tag[f] = "py3-none-any" -> 100
      [] Tag[f] = "none-any" -> 80
      [] Tag[f] = "cp3" -> 60
      [] OTHER -> 10

(* driver.go:487-505  the first of the wheels with the highest score, also *)
(* one that the last page does not name any more.                          *)
BestWheel(idx, p) ==
    LET files == idx.byPkg[p]
        wheels == {n \in DOMAIN files : Tag[files[n]] # "sdist"}
        best == {n \in wheels :
                    \A k \in wheels : WheelScore(files[k]) <= WheelScore(files[n])}
    IN IF wheels = {} THEN Unlisted ELSE files[Min(best)]
=============================================================================
