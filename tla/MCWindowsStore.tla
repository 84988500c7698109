--------------------------- MODULE MCWindowsStore ---------------------------
EXTENDS WindowsStore, TLC

Symmetry == Permutations(Inode) \cup Permutations(Content)

\* The root as the store creates it, and with an entry for another account.
MCRootAccess ==
    {private_dacl("user"),
     [private_dacl("user") EXCEPT !.dacl = @ \cup {AceText("A", {"FR"}, "guest")}]}

\* A directory of the user's, one in which others may create files, and one
\* with an entry of an unknown type.
MCDirAccess ==
    LET dir(aces) == [owner |-> "user", protected |-> FALSE, dacl |-> aces]
    IN  {dir({AceText("A", {"FA"}, "OW"), AceText("A", {"FR", "FX"}, "guest")}),
         dir({AceText("A", {"FA"}, "user"), AceText("A", {"FR", "DC"}, "guest")}),
         dir({AceText("AU", {"FA"}, "user")})}
============================================================================
