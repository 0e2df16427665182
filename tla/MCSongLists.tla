----------------------------- MODULE MCSongLists -----------------------------
EXTENDS SongLists

CONSTANTS a, b, w1

MCSong == {a, b}
MCWorker == {w1}
\* One list extends another, the third permutes it and has its hash.
MCList == {<<a>>, <<a, b>>, <<b, a>>}
=============================================================================
