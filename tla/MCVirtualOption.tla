--------------------------- MODULE MCVirtualOption ---------------------------
(* A small instance of VirtualOption: four options over two pages.         *)
EXTENDS VirtualOption, Functions

CONSTANTS a, b, c, d

Page(order, text) == [order |-> order, body |-> [o \in Range(order) |-> text]]

\* A page in two versions that share an option, a page that fits, a page that
\* does not fit, and one that names an option twice.
MCContents ==
  {Page(<<a, b>>, "v1"), Page(<<b>>, "v2"), Page(<<c, d>>, "v1"),
   Page(<<a, b, c>>, "v1"), Page(<<a, a>>, "v1")}
=============================================================================
