------------------------------ MODULE MCFileIO ------------------------------
EXTENDS FileIO

\* An erased sector, or one behind another root that ends on an odd byte.
MCRootWindows == {<<0, 5>>, <<1, 5>>}
=============================================================================
