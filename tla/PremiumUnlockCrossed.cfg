CONSTANTS
    Wallpapers = {w1, w2}
    Attempts = {a1, a2}
    None = None
    MaxRestarts = 0
SPECIFICATION Spec
PROPERTIES
    SuccessUnlocksItsWallpaper
