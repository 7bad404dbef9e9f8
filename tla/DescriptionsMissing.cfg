CONSTANTS
    Describers = {d1}
    Getters = {g1}
    Listers = {}
    Deleters = {x1}
    Texts = {t1}
    Empty = Empty
    NoText = NoText

SPECIFICATION Spec

PROPERTY MissingMeansAbsent

CHECK_DEADLOCK FALSE
