--------------------------- MODULE MCJitsonStack ----------------------------
EXTENDS JitsonStack

\* Values the caller duplicates: a scalar, an empty object, {"k": scalar}.
MCScalar   == <<Scalar>>
MCEmptyObj == <<[Cell("object", FALSE) EXCEPT !.integer = 1]>>
MCObj1     == <<[Cell("object", FALSE) EXCEPT !.integer = 3, !.len = 1],
                StringOf(1, TRUE)[1], Scalar>>
MCDups     == {MCScalar, MCEmptyObj, MCObj1}
=============================================================================
