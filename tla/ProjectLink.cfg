\* Two conversations of a channel that link, complete, save and unlink.
CONSTANTS
    ann = ann
    bob = bob
    page = page
    page2 = page2
    hub = hub
    plain = plain
    Nothing = Nothing
    Sessions = {ann, bob}
    Resources = {page, page2}
    Presets = {hub, plain}
    DefaultPreset = hub
    Required <- MCRequired
    MayCreate = {hub}
    Receipts <- MCReceipts
    MaxIds = 3
    MaxSteps = 2
    MaxRestarts = 1
    MaxTries = 2
SPECIFICATION Spec
SYMMETRY ChannelSymmetry
CHECK_DEADLOCK FALSE
INVARIANTS TypeOK OneHistory OneResourcePerKey Vouched
