SPECIFICATION Spec
CONSTANTS
    episode = episode
    film = film
    None = None
    Intents <- MCIntents
    Episodes <- MCEpisodes
    Requested <- MCEpisodes
    ArrRows <- MCFilms
    Dates = {0, 3}
    MaxAttempts = 2
    MaxEvents = 4
INVARIANT PreparingIsHeld
PROPERTIES WithdrawnStays ExhaustedRests NoHotLoop EveryIntentSettles
