-------------------------- MODULE MCBundleRefresh --------------------------
EXTENDS BundleRefresh

CONSTANTS compose, init, c1, c2, i1, i2

BothFiles == <<compose, init>>

\* The second bundle changes one file, the third both.
ThreeBundles ==
    { [f \in {compose, init} |-> IF f = compose THEN c1 ELSE i1],
      [f \in {compose, init} |-> IF f = compose THEN c2 ELSE i1],
      [f \in {compose, init} |-> IF f = compose THEN c2 ELSE i2] }
=============================================================================
