---------------------------- MODULE MCIntelStore ----------------------------
(* Instances of IntelStore for TLC. *)
EXTENDS IntelStore

CONSTANTS phone, Phone, other   \* spellings of sources

\* An Alarm Phone post under both its spellings, and a later post of another
\* source.
TwoPosts ==
  {[post |-> 1, source |-> phone], [post |-> 1, source |-> Phone], [post |-> 2, source |-> other]}

OnePost == {[post |-> 1, source |-> phone]}

Spellings == {phone, Phone}
Normal == [s \in Sources |-> IF s = Phone THEN phone ELSE s]

=============================================================================
