\* Two requests that describe the image and two that delete it, so that either
\* kind may overlap with its own, and a reader, which changes nothing.  With the
\* empty text there are two that the requests may get.
CONSTANTS
    Describers = {d1, d2}
    Getters = {}
    Listers = {l1}
    Deleters = {x1, x2}
    Texts = {t1}
    Empty = Empty
    NoText = NoText

SPECIFICATION Spec

INVARIANTS
    TypeOK
    DeletedOnce

PROPERTY RetryFromCache

\* Every request may be over.
CHECK_DEADLOCK FALSE
