SPECIFICATION Spec
CONSTANTS
    Entries = {e1}
    Exits = {x1}
    Relays = {r1, r2}
    Numerals <- MCNumerals
INVARIANT RoutesAreExact
INVARIANT PayloadsSurviveTransport
INVARIANT SelectedRoutesAreBest
INVARIANT SettingsTakeEffect
INVARIANT VersionMismatchesRanked
