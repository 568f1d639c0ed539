SPECIFICATION PageImagesSpec
CONSTANTS
    PageAskers = {1, 2}
    DocPages = 2
    MaxVersion = 2
INVARIANTS
    ImagesAreTakenDown
CHECK_DEADLOCK FALSE
