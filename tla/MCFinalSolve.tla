---------------------------- MODULE MCFinalSolve ----------------------------
EXTENDS FinalSolve

\* A chain of features over five frames, and a match that can tie the two
\* features of frame 1 together.
MCMatchable == {<<<<1, 1>>, <<2, 1>>>>, <<<<2, 1>>, <<3, 1>>>>,
                <<<<3, 1>>, <<4, 1>>>>, <<<<4, 1>>, <<5, 1>>>>,
                <<<<1, 2>>, <<3, 1>>>>}
=============================================================================
