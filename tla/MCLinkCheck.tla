---------------------------- MODULE MCLinkCheck ----------------------------
EXTENDS LinkCheck

\* The kinds of interface of link.rs 16-24: cards and virtual adapters in every
\* state, shims that claim to be connected, and an interface of another type.
MCAdapters ==
  [wanted : {TRUE}, is_filter : {FALSE}, named : BOOLEAN, hardware : BOOLEAN,
   media : Media, oper_up : BOOLEAN]
  \cup [wanted : {TRUE}, is_filter : {TRUE}, named : BOOLEAN, hardware : {FALSE},
        media : {"Connected"}, oper_up : {TRUE}]
  \cup [wanted : {FALSE}, is_filter : {FALSE}, named : {TRUE}, hardware : {TRUE},
        media : {"Connected"}, oper_up : {TRUE}]
=============================================================================
