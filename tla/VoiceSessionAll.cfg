\* Everything users say, in a room and on a page.
CONSTANTS
    Rooms = {room}
    Pages = {page}
    Transcripts <- AllTalk
    None = None
    ConfirmationRequired = TRUE
    MaxTurns = 4
SPECIFICATION Spec
INVARIANT NamedAndConfirmed
INVARIANT OneRunPerAsk
CHECK_DEADLOCK FALSE
